---- MODULE Spec2Model ----
(***************************************************************************)
(* OWLCMS schedule scrapers: FinalScheduleScraper (final_scraper.py, the   *)
(* positional strategy, records keyed by meet) and ScheduleScraper         *)
(* (prelim_scraper.py, the header-driven strategy, records keyed by date). *)
(*                                                                         *)
(* Text is a sequence of one-character strings, so that parsing, stripping *)
(* and formatting are computed character by character as the code does.   *)
(* The characters are the first 256 of Unicode (ASCII and Latin-1): the    *)
(* character classes below are those of Python's str methods and of its    *)
(* regular expressions on that range.                                      *)
(***************************************************************************)
EXTENDS Integers, Sequences, FiniteSets, TLC

\* ------------------------------------------------------------------ values
\* Python's None where a text (or a parsed value) is optional
None == <<"None">>
\* Python's None where an int is optional (current_session = None)
NoneInt == 0 - 1
\* Python truthiness of an optional text: None and '' are falsy
Truthy(s) == s # None /\ s # <<>>
\* a test that takes 0 for a value
IsSetInt(n) == n # NoneInt
\* Python truthiness of an optional int: None and 0 are falsy
TruthyInt(n) == n # NoneInt /\ n # 0

\* ------------------------------------------------------------------ characters
Digits == <<"0", "1", "2", "3", "4", "5", "6", "7", "8", "9">>
UpperAlpha == <<"A", "B", "C", "D", "E", "F", "G", "H", "I", "J", "K", "L", "M",
                "N", "O", "P", "Q", "R", "S", "T", "U", "V", "W", "X", "Y", "Z">>
LowerAlpha == <<"a", "b", "c", "d", "e", "f", "g", "h", "i", "j", "k", "l", "m",
                "n", "o", "p", "q", "r", "s", "t", "u", "v", "w", "x", "y", "z">>
Range(f) == {f[i] : i \in DOMAIN f}
DigitSet == Range(Digits)
UpperSet == Range(UpperAlpha)
LowerSet == Range(LowerAlpha)
\* the upper-case letters of Latin-1 and their lower-case forms
UpperLatin == <<"À", "Á", "Â", "Ã", "Ä", "Å", "Æ", "Ç", "È", "É", "Ê", "Ë", "Ì", "Í", "Î", "Ï", "Ð", "Ñ", "Ò", "Ó", "Ô", "Õ", "Ö", "Ø", "Ù", "Ú", "Û", "Ü", "Ý", "Þ">>
LowerLatin == <<"à", "á", "â", "ã", "ä", "å", "æ", "ç", "è", "é", "ê", "ë", "ì", "í", "î", "ï", "ð", "ñ", "ò", "ó", "ô", "õ", "ö", "ø", "ù", "ú", "û", "ü", "ý", "þ">>
\* regex \d, and the digits int() reads
IsDecimal(c) == c \in DigitSet
\* str.isdigit() on one character: the decimal digits and the superscripts 2, 3, 1
IsDigit(c) == c \in DigitSet \cup {"²", "³", "¹"}
\* regex [A-Z] and [a-z]
IsUpper(c) == c \in UpperSet
IsLower(c) == c \in LowerSet
\* str.strip() and regex \s: tab, newline, vertical tab, form feed, carriage return,
\* the separators U+001C..U+001F, space, next line U+0085, no-break space U+00A0
IsSpace(c) == c \in {"\t", "\n", "", "\f", "\r", "", "", "", "",
                     " ", "", " "}
\* the whitespace int() strips: that of str.strip() without U+001C..U+001F
IsIntSpace(c) == c \in {"\t", "\n", "", "\f", "\r", " ", "", " "}
\* the tables of int(), str.lower() and str.upper() on one character
DigitValues == [c \in DigitSet |-> (CHOOSE i \in DOMAIN Digits : Digits[i] = c) - 1] @@ <<>>
ToLower ==
    [c \in UpperSet \cup Range(UpperLatin) |->
        IF c \in UpperSet THEN LowerAlpha[CHOOSE i \in DOMAIN UpperAlpha : UpperAlpha[i] = c]
        ELSE LowerLatin[CHOOSE i \in DOMAIN UpperLatin : UpperLatin[i] = c]] @@ <<>>
ToUpper ==
    [c \in LowerSet \cup Range(LowerLatin) |->
        IF c \in LowerSet THEN UpperAlpha[CHOOSE i \in DOMAIN LowerAlpha : LowerAlpha[i] = c]
        ELSE UpperLatin[CHOOSE i \in DOMAIN LowerLatin : LowerLatin[i] = c]] @@ <<>>
DigitVal(c) == DigitValues[c]
DigitChar(n) == Digits[n + 1]
LowerChar(c) == IF c \in DOMAIN ToLower THEN ToLower[c] ELSE c
UpperChar(c) == IF c \in DOMAIN ToUpper THEN ToUpper[c] ELSE c

\* `x = <value>` followed by the code that uses x: F applied to the value
Bind(x, F(_)) == F(x)

\* ------------------------------------------------------------------ str methods
\* s[i] when i is inside s, else a value no character equals
At(s, i) == IF i >= 1 /\ i <= Len(s) THEN s[i] ELSE "<end>"
\* str.lower()
Lower(s) == SubSeq([i \in DOMAIN s |-> LowerChar(s[i])], 1, Len(s))
\* str.capitalize(): first character upper-cased (a sharp s gives 'Ss'), the rest
\* lower-cased; the upper-case forms of the micro sign and of y with diaeresis lie
\* beyond U+00FF and are left out: the code capitalizes RED, WHITE and BLUE only
\* (final_scraper.py 113, 138)
Capitalize(s) ==
    IF s = <<>> THEN <<>>
    ELSE (IF s[1] = "ß" THEN <<"S", "s">> ELSE <<UpperChar(s[1])>>) \o Lower(Tail(s))
\* str.strip(): leading and trailing whitespace removed
RECURSIVE LStrip(_)
LStrip(s) == IF s # <<>> /\ IsSpace(Head(s)) THEN LStrip(Tail(s)) ELSE s
RECURSIVE RStrip(_)
RStrip(s) == IF s # <<>> /\ IsSpace(s[Len(s)]) THEN RStrip(SubSeq(s, 1, Len(s) - 1)) ELSE s
Strip(s) == RStrip(LStrip(s))
\* str.replace('\n', ' ')
ReplaceNewline(s) == SubSeq([i \in DOMAIN s |-> IF s[i] = "\n" THEN " " ELSE s[i]], 1, Len(s))
\* sub occurs in s starting at position i
MatchAt(s, i, sub) == i >= 1 /\ i + Len(sub) - 1 <= Len(s) /\ \A k \in 1..Len(sub) : s[i + k - 1] = sub[k]
\* Python's `sub in s`
Contains(s, sub) == \E i \in 1..(Len(s) + 1) : MatchAt(s, i, sub)
\* str.isdigit() (non-empty, digits only)
IsDigitStr(s) == s # <<>> /\ \A i \in DOMAIN s : IsDigit(s[i])
\* int(s): whitespace around, a sign, then decimal digits with single underscores
\* between them. IntBody is what follows the sign; IntRaises: int(s) raises ValueError;
\* IntOf is the value int(s) returns (0 where it raises)
RECURSIVE IntLStrip(_)
IntLStrip(s) == IF s # <<>> /\ IsIntSpace(Head(s)) THEN IntLStrip(Tail(s)) ELSE s
RECURSIVE IntRStrip(_)
IntRStrip(s) == IF s # <<>> /\ IsIntSpace(s[Len(s)]) THEN IntRStrip(SubSeq(s, 1, Len(s) - 1)) ELSE s
IntBody(s) ==
    Bind(IntRStrip(IntLStrip(s)), LAMBDA t :
    IF t # <<>> /\ t[1] \in {"+", "-"} THEN Tail(t) ELSE t)
IntRaises(s) ==
    Bind(IntBody(s), LAMBDA b :
    \/ b = <<>>
    \/ \E i \in DOMAIN b : ~IsDecimal(b[i]) /\ b[i] # "_"
    \/ b[1] = "_" \/ b[Len(b)] = "_"
    \/ \E i \in 1..(Len(b) - 1) : b[i] = "_" /\ b[i + 1] = "_")
RECURSIVE DecimalValue(_)
DecimalValue(s) ==
    IF s = <<>> THEN 0 ELSE 10 * DecimalValue(SubSeq(s, 1, Len(s) - 1)) + DigitVal(s[Len(s)])
IntOf(s) ==
    IF IntRaises(s) THEN 0
    ELSE Bind(DecimalValue(SelectSeq(IntBody(s), IsDecimal)), LAMBDA v :
         IF At(IntLStrip(s), 1) = "-" THEN 0 - v ELSE v)
\* str(cell or '').strip() of a nullable cell
CellText(cell) == IF cell = None THEN <<>> ELSE Strip(cell)
\* two-digit zero-padded rendering (%H, %M, %S, %m, %d of strftime)
Pad2(n) == <<DigitChar(n \div 10), DigitChar(n % 10)>>
\* the first position >= i of s that is not whitespace (regex \s*)
RECURSIVE SkipSpace(_, _)
SkipSpace(s, i) == IF i <= Len(s) /\ IsSpace(s[i]) THEN SkipSpace(s, i + 1) ELSE i

\* ------------------------------------------------------------------ strptime
(* datetime.strptime compiles the format to a regular expression, matches it *)
(* at the start of the text and rejects text that the match does not use up. *)
(* NumLen is the number of characters a numeric directive takes at position i*)
(* (0: no match), alternatives tried in the order of _strptime's patterns.   *)
NumLen(s, i, d) ==
    LET c1 == At(s, i)
        c2 == At(s, i + 1)
        two == CASE d = "H" -> (c1 = "2" /\ c2 \in {"0", "1", "2", "3"}) \/ (c1 \in {"0", "1"} /\ IsDecimal(c2))
                 [] d = "M" -> c1 \in {"0", "1", "2", "3", "4", "5"} /\ IsDecimal(c2)
                 [] d = "S" -> (c1 = "6" /\ c2 \in {"0", "1"}) \/ (c1 \in {"0", "1", "2", "3", "4", "5"} /\ IsDecimal(c2))
                 [] d = "I" -> (c1 = "1" /\ c2 \in {"0", "1", "2"}) \/ (c1 = "0" /\ IsDecimal(c2) /\ c2 # "0")
                 [] d = "m" -> (c1 = "1" /\ c2 \in {"0", "1", "2"}) \/ (c1 = "0" /\ IsDecimal(c2) /\ c2 # "0")
                 [] d = "d" -> (c1 = "3" /\ c2 \in {"0", "1"}) \/ (c1 \in {"1", "2"} /\ IsDecimal(c2))
                               \/ (c1 = "0" /\ IsDecimal(c2) /\ c2 # "0")
                 [] d = "y" -> IsDecimal(c1) /\ IsDecimal(c2)
                 [] OTHER -> FALSE
        one == CASE d \in {"H", "M", "S"} -> IsDecimal(c1)
                 [] d \in {"I", "m", "d"} -> IsDecimal(c1) /\ c1 # "0"
                 [] OTHER -> FALSE
    IN  IF d = "Y" THEN (IF \A k \in 0..3 : IsDecimal(At(s, i + k)) THEN 4 ELSE 0)
        ELSE IF two THEN 2
        ELSE IF one THEN 1
        ELSE IF d = "d" /\ c1 = " " /\ IsDecimal(c2) /\ c2 # "0" THEN 2
        ELSE 0
\* the number a numeric directive read (' 5' of %d reads as 5)
NumVal(s, i, n) == IntOf(SelectSeq(SubSeq(s, i, i + n - 1), IsDecimal))

\* %p: AM or PM in any letter case at position i (0: no match)
AmPmAt(s, i) ==
    LET w == Lower(SubSeq(s, i, i + 1))
    IN  IF i + 1 <= Len(s) /\ w \in {<<"a", "m">>, <<"p", "m">>} THEN w ELSE <<>>
\* the month names of %B and the abbreviations of %b, matched ignoring case
MonthNames == <<
    <<"J", "a", "n", "u", "a", "r", "y">>, <<"F", "e", "b", "r", "u", "a", "r", "y">>,
    <<"M", "a", "r", "c", "h">>, <<"A", "p", "r", "i", "l">>, <<"M", "a", "y">>,
    <<"J", "u", "n", "e">>, <<"J", "u", "l", "y">>, <<"A", "u", "g", "u", "s", "t">>,
    <<"S", "e", "p", "t", "e", "m", "b", "e", "r">>, <<"O", "c", "t", "o", "b", "e", "r">>,
    <<"N", "o", "v", "e", "m", "b", "e", "r">>, <<"D", "e", "c", "e", "m", "b", "e", "r">> >>
MonthAbbrs == [k \in DOMAIN MonthNames |-> SubSeq(MonthNames[k], 1, 3)]
\* the month (1..12) whose name from `names` stands at position i, ignoring case (0: none)
MonthAt(s, i, names) ==
    Bind({k \in DOMAIN names : MatchAt(Lower(s), i, Lower(names[k]))}, LAMBDA hit :
    IF hit = {} THEN 0
    ELSE CHOOSE k \in hit : \A j \in hit : Len(names[j]) <= Len(names[k]))
\* days of a month of the proleptic Gregorian calendar (datetime's validation)
IsLeap(y) == y % 4 = 0 /\ (y % 100 # 0 \/ y % 400 = 0)
DaysIn(y, m) == IF m = 2 THEN (IF IsLeap(y) THEN 28 + 1 ELSE 28)
                ELSE IF m \in {4, 6, 9, 11} THEN 30 ELSE 30 + 1
ValidDate(y, m, d) == y >= 1 /\ m \in 1..12 /\ d >= 1 /\ d <= DaysIn(y, m)
\* the fields strptime has read so far
StrpStart == [ok |-> TRUE, H |-> 0, M |-> 0, S |-> 0, I |-> NoneInt, p |-> <<>>,
              Y |-> 1900, m |-> 1, d |-> 1]
StrpFail == [StrpStart EXCEPT !.ok = FALSE]
\* match directive k of fmt at position i of s
RECURSIVE StrpMatch(_, _, _, _, _)
StrpMatch(s, i, fmt, k, acc) ==
    IF k > Len(fmt) THEN (IF i = Len(s) + 1 THEN acc ELSE StrpFail)
    ELSE LET t == fmt[k]
         IN  IF t \in {"H", "M", "S", "I", "m", "d", "Y"}
             THEN Bind(NumLen(s, i, t), LAMBDA n :
                  IF n = 0 THEN StrpFail
                  ELSE StrpMatch(s, i + n, fmt, k + 1, [acc EXCEPT ![t] = NumVal(s, i, n)]))
             ELSE IF t = "y"
             THEN Bind(NumLen(s, i, t), LAMBDA n :
                  Bind(NumVal(s, i, n), LAMBDA v :
                  IF n = 0 THEN StrpFail
                  ELSE StrpMatch(s, i + n, fmt, k + 1,
                                 [acc EXCEPT !.Y = IF v <= 68 THEN 2000 + v ELSE 1900 + v])))
             ELSE IF t = "p"
             THEN Bind(AmPmAt(s, i), LAMBDA w :
                  IF w = <<>> THEN StrpFail
                  ELSE StrpMatch(s, i + 2, fmt, k + 1, [acc EXCEPT !.p = w]))
             ELSE IF t \in {"B", "b"}
             THEN LET names == IF t = "B" THEN MonthNames ELSE MonthAbbrs
                  IN  Bind(MonthAt(s, i, names), LAMBDA mo :
                      IF mo = 0 THEN StrpFail
                      ELSE StrpMatch(s, i + Len(names[mo]), fmt, k + 1, [acc EXCEPT !.m = mo]))
             ELSE IF t = " "
             THEN (IF IsSpace(At(s, i)) THEN StrpMatch(s, SkipSpace(s, i), fmt, k + 1, acc) ELSE StrpFail)
             ELSE (IF At(s, i) = t THEN StrpMatch(s, i + 1, fmt, k + 1, acc) ELSE StrpFail)
\* datetime.strptime(s, fmt): the fields read, ok = FALSE for ValueError
Strptime(s, fmt) ==
    Bind(StrpMatch(s, 1, fmt, 1, StrpStart), LAMBDA r :
    Bind(IF r.I = NoneInt THEN r.H
         ELSE IF r.p = <<"p", "m">> THEN (IF r.I # 12 THEN r.I + 12 ELSE r.I)
         ELSE (IF r.I = 12 THEN 0 ELSE r.I), LAMBDA hour :
    IF r.ok /\ r.S <= 59 /\ ValidDate(r.Y, r.m, r.d)
    THEN [r EXCEPT !.H = hour]
    ELSE StrpFail))

\* ------------------------------------------------------------------ _parse_time
\* a parsed time, no time (None) and the ValueError datetime.time() raises
TimeVal(h, m, s) == [tag |-> "time", h |-> h, m |-> m, s |-> s]
NoTime == [tag |-> "none", h |-> 0, m |-> 0, s |-> 0]
RaisesValueError == [tag |-> "raise", h |-> 0, m |-> 0, s |-> 0]
\* formats = ['%H:%M:%S', '%H:%M', '%I:%M %p', '%I:%M%p']
TimeFormats == << <<"H", ":", "M", ":", "S">>, <<"H", ":", "M">>,
                  <<"I", ":", "M", " ", "p">>, <<"I", ":", "M", "p">> >>
\* re.search(r'(\d{1,2}):(\d{2})\s*(am|pm)?', s) tried at position i
TimeRegexAt(s, i) ==
    Bind(IF IsDecimal(At(s, i)) /\ IsDecimal(At(s, i + 1)) /\ At(s, i + 2) = ":" THEN 2
         ELSE IF IsDecimal(At(s, i)) /\ At(s, i + 1) = ":" THEN 1 ELSE 0, LAMBDA hl :
    Bind(i + hl + 1, LAMBDA mp :
    Bind(hl > 0 /\ IsDecimal(At(s, mp)) /\ IsDecimal(At(s, mp + 1)), LAMBDA ok :
    [ok |-> ok,
     hour |-> IF ok THEN IntOf(SubSeq(s, i, i + hl - 1)) ELSE 0,
     minute |-> IF ok THEN IntOf(SubSeq(s, mp, mp + 1)) ELSE 0,
     am_pm |-> IF ok THEN AmPmAt(s, SkipSpace(s, mp + 2)) ELSE <<>>])))
\* the fallback of _parse_time: the leftmost match, then datetime_time(hour, minute)
TimeRegex(s) ==
    Bind(Lower(s), LAMBDA low :
    Bind({i \in 1..Len(low) : TimeRegexAt(low, i).ok}, LAMBDA hits :
    IF hits = {} THEN NoTime
    ELSE Bind(TimeRegexAt(low, CHOOSE i \in hits : \A j \in hits : i <= j), LAMBDA g :
         Bind(IF g.am_pm = <<"p", "m">> /\ g.hour < 12 THEN g.hour + 12
              ELSE IF g.am_pm = <<"a", "m">> /\ g.hour = 12 THEN 0
              ELSE g.hour, LAMBDA hour :
         IF hour <= 23 /\ g.minute <= 59 THEN TimeVal(hour, g.minute, 0)
         ELSE RaisesValueError))))
\* _parse_time(time_str): the first format that parses wins, then the regex
RECURSIVE TryTimeFormats(_, _)
TryTimeFormats(s, k) ==
    IF k > Len(TimeFormats) THEN TimeRegex(s)
    ELSE Bind(Strptime(s, TimeFormats[k]), LAMBDA r :
         IF r.ok THEN TimeVal(r.H, r.M, r.S) ELSE TryTimeFormats(s, k + 1))
_parse_time(time_str) ==
    IF ~Truthy(time_str) THEN NoTime ELSE TryTimeFormats(Strip(time_str), 1)
\* time.strftime('%H:%M:%S')
strftime_HMS(t) == Pad2(t.h) \o <<":">> \o Pad2(t.m) \o <<":">> \o Pad2(t.s)

\* ------------------------------------------------------------------ dates
\* datetime.strftime('%Y-%m-%d'): the C library's %Y does not pad the year with
\* zeros (year 999 gives '999-06-21'), %m and %d are two digits
RECURSIVE YearDigits(_)
YearDigits(n) ==
    IF n < 10 THEN <<DigitChar(n)>> ELSE YearDigits(n \div 10) \o <<DigitChar(n % 10)>>
strftime_Ymd(y, m, d) == YearDigits(y) \o <<"-">> \o Pad2(m) \o <<"-">> \o Pad2(d)
\* any(month in date_str for month in ['Jan', ..., 'Dec']), case-sensitive
HasMonthAbbr(date_str) == \E k \in DOMAIN MonthAbbrs : Contains(date_str, MonthAbbrs[k])
\* any(month in date_str for month in ['January', ..., 'December']), case-sensitive
HasMonthName(date_str) == \E k \in DOMAIN MonthNames : Contains(date_str, MonthNames[k])
\* year = 2025 of _parse_date_from_short
AssumedYear == 2025
\* the length (1 or 2, 0: none) of the \d{1,2} at position i
Digits12(s, i) == IF IsDecimal(At(s, i)) THEN (IF IsDecimal(At(s, i + 1)) THEN 2 ELSE 1) ELSE 0
\* (Jan|...|Dec)\s+(\d{1,2}) tried at position i: [ok, month, day]
ShortDateAt(s, i) ==
    Bind({k \in DOMAIN MonthAbbrs : MatchAt(s, i, MonthAbbrs[k])}, LAMBDA hit :
    Bind(SkipSpace(s, i + 3), LAMBDA dp :
    Bind(hit # {} /\ IsSpace(At(s, i + 3)) /\ Digits12(s, dp) > 0, LAMBDA ok :
    [ok |-> ok,
     month |-> IF ok THEN CHOOSE k \in hit : TRUE ELSE 0,
     day |-> IF ok THEN IntOf(SubSeq(s, dp, dp + Digits12(s, dp) - 1)) ELSE 0])))
\* FinalScheduleScraper._parse_date_from_short: 'Sat\nJun 21' -> '2025-06-21'
_parse_date_from_short(date_str) ==
    IF ~Truthy(date_str) THEN None
    ELSE Bind(ReplaceNewline(Strip(date_str)), LAMBDA s :
         Bind({i \in 1..Len(s) : ShortDateAt(s, i).ok}, LAMBDA hits :
         IF hits = {} THEN None
         ELSE Bind(ShortDateAt(s, CHOOSE i \in hits : \A j \in hits : i <= j), LAMBDA g :
              IF ValidDate(AssumedYear, g.month, g.day)
              THEN strftime_Ymd(AssumedYear, g.month, g.day)
              ELSE None)))
\* formats = ['%Y-%m-%d', '%m/%d/%Y', '%m/%d/%y', '%B %d, %Y', '%b %d, %Y']
DateFormats == << <<"Y", "-", "m", "-", "d">>, <<"m", "/", "d", "/", "Y">>,
                  <<"m", "/", "d", "/", "y">>, <<"B", " ", "d", ",", " ", "Y">>,
                  <<"b", " ", "d", ",", " ", "Y">> >>
\* ScheduleScraper._parse_date: the first format that parses wins
RECURSIVE TryDateFormats(_, _)
TryDateFormats(s, k) ==
    IF k > Len(DateFormats) THEN None
    ELSE Bind(Strptime(s, DateFormats[k]), LAMBDA r :
         IF r.ok THEN strftime_Ymd(r.Y, r.m, r.d) ELSE TryDateFormats(s, k + 1))
_parse_date(date_str) ==
    IF ~Truthy(date_str) THEN None ELSE TryDateFormats(Strip(date_str), 1)
\* the end (exclusive) of the [a-z]+ run that starts at position i
RECURSIVE SkipLower(_, _)
SkipLower(s, i) == IF i <= Len(s) /\ IsLower(s[i]) THEN SkipLower(s, i + 1) ELSE i
\* ([A-Z][a-z]+)\s+(\d{1,2}),?\s+(\d{4}) tried at position i: [ok, month_str, day, year]
TextDateAt(s, i) ==
    Bind(SkipLower(s, i + 1), LAMBDA we :
    Bind(SkipSpace(s, we), LAMBDA dp :
    Bind(dp + Digits12(s, dp), LAMBDA cp :
    Bind(IF At(s, cp) = "," THEN cp + 1 ELSE cp, LAMBDA sp :
    Bind(SkipSpace(s, sp), LAMBDA yp :
    Bind(/\ IsUpper(At(s, i)) /\ we > i + 1
         /\ dp > we /\ cp > dp
         /\ yp > sp /\ \A k \in 0..3 : IsDecimal(At(s, yp + k)), LAMBDA ok :
    [ok |-> ok,
     month_str |-> IF ok THEN SubSeq(s, i, we - 1) ELSE <<>>,
     day |-> IF ok THEN SubSeq(s, dp, cp - 1) ELSE <<>>,
     year |-> IF ok THEN SubSeq(s, yp, yp + 3) ELSE <<>>]))))))
\* ScheduleScraper._parse_date_from_text: 'Saturday June 21, 2025' -> '2025-06-21'
_parse_date_from_text(date_str) ==
    IF ~Truthy(date_str) THEN None
    ELSE Bind(Strip(date_str), LAMBDA s :
         Bind({i \in 1..Len(s) : TextDateAt(s, i).ok}, LAMBDA hits :
         IF hits = {} THEN _parse_date(s)
         ELSE Bind(TextDateAt(s, CHOOSE i \in hits : \A j \in hits : i <= j), LAMBDA g :
              Bind(Strptime(g.month_str \o <<" ">> \o g.day \o <<" ">> \o g.year,
                            <<"B", " ", "d", " ", "Y">>), LAMBDA r :
              IF r.ok THEN strftime_Ymd(r.Y, r.m, r.d) ELSE _parse_date(s)))))

\* ------------------------------------------------------------------ weight class
\* re.sub(r'\s+[A-E]$', '', weight_category).strip()
RECURSIVE SpaceRunStart(_, _)
SpaceRunStart(s, i) == IF i >= 1 /\ IsSpace(s[i]) THEN SpaceRunStart(s, i - 1) ELSE i + 1
StripGroupLetter(weight_category) ==
    LET n == Len(weight_category)
    IN  IF n >= 2 /\ weight_category[n] \in {"A", "B", "C", "D", "E"} /\ IsSpace(weight_category[n - 1])
        THEN Strip(SubSeq(weight_category, 1, SpaceRunStart(weight_category, n - 1) - 1))
        ELSE Strip(weight_category)

\* ------------------------------------------------------------------ records
\* a schedule entry: the dict built by _parse_table / _extract_entry_from_row
Entry(date, session_id, start_time, weigh_in_time, platform, weight_class, meet) ==
    [date |-> date, session_id |-> session_id, start_time |-> start_time,
     weigh_in_time |-> weigh_in_time, platform |-> platform,
     weight_class |-> weight_class, meet |-> meet]
\* no entry: the row was skipped (`continue`, `return None`)
NoEntry == Entry(None, NoneInt, None, None, None, None, None)
\* `not row`: a row that is None or has no cells
RowMissing(row) == row = None \/ row = <<>>
\* the text of the cell at 0-based index idx, '' beyond the row's length
Cell(row, idx) == IF idx < Len(row) THEN CellText(row[idx + 1]) ELSE <<>>
\* all(cell is None or str(cell).strip() == '' for cell in row)
AllBlank(row) == \A i \in DOMAIN row : CellText(row[i]) = <<>>
RED == <<"R", "E", "D">>
WHITE == <<"W", "H", "I", "T", "E">>
BLUE == <<"B", "L", "U", "E">>

\* ------------------------------------------------------------------ positional strategy
\* a boundary test that leaves the platform out
IsNewSessionAnyPlatform(session_str, platform, start_time_str, last_start_time, current_session) ==
    /\ ~Truthy(session_str) /\ Truthy(start_time_str)
    /\ Truthy(last_start_time) /\ start_time_str # last_start_time
    /\ TruthyInt(current_session)
\* is_new_session: a RED row without a session number whose start time is not the one
\* recorded last, once a session is running
IsNewSession(session_str, platform, start_time_str, last_start_time, current_session) ==
    /\ ~Truthy(session_str) /\ platform = RED /\ Truthy(start_time_str)
    /\ Truthy(last_start_time) /\ start_time_str # last_start_time
    /\ TruthyInt(current_session)
\* `if session_str and session_str.isdigit()`: the row names its session
HasExplicitSession(session_str) == Truthy(session_str) /\ IsDigitStr(session_str)
\* a tracker that a session number does not reset
TrackerKept(explicit, last_start_time) == last_start_time
\* last_start_time once the session cell is read: a session number resets it
TrackerAfterSession(explicit, last_start_time) == IF explicit THEN None ELSE last_start_time
\* a boundary that skips a session number
NextSessionByTwo(current_session, is_new_session) ==
    IF is_new_session THEN current_session + 2 ELSE current_session
\* `if is_new_session: current_session += 1`, after the entry is appended
NextSession(current_session, is_new_session) ==
    IF is_new_session THEN current_session + 1 ELSE current_session
(* One iteration of the row loop of FinalScheduleScraper._parse_table.       *)
(* f holds the locals current_session, current_date, last_start_time and the *)
(* instance attribute self_current_date; the result adds entry (the dict      *)
(* appended, or NoEntry) and raised (a ValueError left int() at line 109 or    *)
(* _parse_time).                                                              *)
FinalRowStep(f, row, meet_name) ==
    IF RowMissing(row) \/ Len(row) < 7
    THEN [f EXCEPT !.entry = NoEntry, !.raised = FALSE]
    ELSE
    Bind(Cell(row, 0), LAMBDA date_str :
    Bind(Cell(row, 1), LAMBDA session_str :
    Bind(Cell(row, 2), LAMBDA platform :
    Bind(Cell(row, 3), LAMBDA weigh_time_str :
    Bind(Cell(row, 4), LAMBDA start_time_str :
    Bind(IF Truthy(date_str) /\ HasMonthAbbr(date_str)
         THEN _parse_date_from_short(date_str) ELSE None, LAMBDA parsed_date :
    Bind(IF Truthy(parsed_date) THEN parsed_date ELSE f.current_date, LAMBDA current_date :
    Bind(IsNewSession(session_str, platform, start_time_str, f.last_start_time,
                      f.current_session), LAMBDA is_new_session :
    Bind(HasExplicitSession(session_str), LAMBDA explicit :
    IF explicit /\ IntRaises(session_str)
    THEN [f EXCEPT !.current_date = current_date,
                   !.self_current_date = IF Truthy(parsed_date) THEN parsed_date
                                         ELSE f.self_current_date,
                   !.entry = NoEntry, !.raised = TRUE]
    ELSE
    Bind(IF explicit THEN IntOf(session_str) ELSE f.current_session, LAMBDA current_session :
    Bind(TrackerAfterSession(explicit, f.last_start_time), LAMBDA last_start_time :
    Bind([f EXCEPT !.current_session = current_session, !.current_date = current_date,
                   !.last_start_time = last_start_time,
                   !.self_current_date = IF Truthy(parsed_date) THEN parsed_date
                                         ELSE f.self_current_date,
                   !.entry = NoEntry, !.raised = FALSE], LAMBDA g :
    Bind(_parse_time(start_time_str), LAMBDA start_time :
    Bind(_parse_time(weigh_time_str), LAMBDA weigh_time :
    IF ~Truthy(platform) \/ platform \notin {RED, WHITE, BLUE} THEN g
    ELSE IF ~Truthy(start_time_str) \/ ~Truthy(weigh_time_str) THEN g
    ELSE IF ~Truthy(current_date) \/ ~TruthyInt(current_session) THEN g
    ELSE IF start_time.tag = "raise" \/ weigh_time.tag = "raise" THEN [g EXCEPT !.raised = TRUE]
    ELSE IF start_time.tag = "none" \/ weigh_time.tag = "none" THEN g
    ELSE [g EXCEPT
            !.last_start_time = IF platform = RED THEN start_time_str ELSE last_start_time,
            !.entry = Entry(current_date, current_session, strftime_HMS(start_time),
                            strftime_HMS(weigh_time), Capitalize(platform),
                            StripGroupLetter(Cell(row, 6)), meet_name),
            !.current_session = NextSession(current_session, is_new_session)]))))))))))))))
\* the locals of _parse_table at its first row
FinalTableStart(self_date) ==
    [current_session |-> NoneInt, current_date |-> self_date, last_start_time |-> None,
     self_current_date |-> self_date, entry |-> NoEntry, raised |-> FALSE]
\* FinalScheduleScraper._parse_table(table, meet_name) from row k on:
\* [entries, self_current_date, raised]
RECURSIVE FinalParseRows(_, _, _, _, _)
FinalParseRows(f, table, k, meet_name, entries) ==
    IF k > Len(table)
    THEN [entries |-> entries, self_current_date |-> f.self_current_date, raised |-> FALSE]
    ELSE Bind(FinalRowStep(f, table[k], meet_name), LAMBDA g :
         IF g.raised
         THEN [entries |-> <<>>, self_current_date |-> g.self_current_date, raised |-> TRUE]
         ELSE FinalParseRows(g, table, k + 1, meet_name,
                             IF g.entry = NoEntry THEN entries ELSE Append(entries, g.entry)))
Final_parse_table(self_date, table, meet_name) ==
    FinalParseRows(FinalTableStart(self_date), table, 1, meet_name, <<>>)

\* ------------------------------------------------------------------ header-driven strategy
Red == <<"R", "e", "d">>
White == <<"W", "h", "i", "t", "e">>
Blue == <<"B", "l", "u", "e">>
kw_sess == <<"s", "e", "s", "s">>
kw_date == <<"d", "a", "t", "e">>
kw_plat == <<"p", "l", "a", "t">>
kw_weigh == <<"w", "e", "i", "g", "h">>
kw_weight == <<"w", "e", "i", "g", "h", "t">>
kw_category == <<"c", "a", "t", "e", "g", "o", "r", "y">>
kw_time == <<"t", "i", "m", "e">>
\* str(cell or '') of a nullable cell, not stripped
CellStr(cell) == IF cell = None THEN <<>> ELSE cell
\* ' '.join([f(cell) for cell in row]) from cell k on, f = lower (TRUE) or strip (FALSE)
RECURSIVE JoinCells(_, _, _)
JoinCells(row, k, lower) ==
    IF k > Len(row) THEN <<>>
    ELSE (IF lower THEN Lower(CellStr(row[k])) ELSE CellText(row[k]))
         \o (IF k < Len(row) THEN <<" ">> ELSE <<>>) \o JoinCells(row, k + 1, lower)
\* the number of the five keyword groups a row's text holds
keywords_found(row) ==
    LET b(x) == IF x THEN 1 ELSE 0
    IN  Bind(JoinCells(row, 1, TRUE), LAMBDA row_text :
        b(Contains(row_text, kw_sess)) + b(Contains(row_text, kw_date))
        + b(Contains(row_text, kw_plat)) + b(Contains(row_text, kw_weigh))
        + b(Contains(row_text, kw_weight) /\ Contains(row_text, kw_category)))
\* a row of the table qualifies as a header row: at least 4 of the 5 groups
IsHeaderRow(row) == ~RowMissing(row) /\ ~AllBlank(row) /\ keywords_found(row) >= 4
\* the date text of a section: the first of the up to 3 rows above the header
\* (0-based index idx) whose text holds a full month name, else None
RECURSIVE LookBack(_, _, _)
LookBack(table, idx, look_back) ==
    IF look_back >= 4 \/ look_back >= idx + 1 THEN None
    ELSE LET prev_row == table[idx - look_back + 1]
         IN  Bind(IF RowMissing(prev_row) THEN <<>> ELSE JoinCells(prev_row, 1, FALSE),
                  LAMBDA prev_text :
             IF ~RowMissing(prev_row) /\ HasMonthName(prev_text) THEN prev_text
             ELSE LookBack(table, idx, look_back + 1))
\* header_sections of ScheduleScraper._parse_table, from 0-based row idx on
RECURSIVE FindHeaders(_, _)
FindHeaders(table, idx) ==
    IF idx >= Len(table) THEN <<>>
    ELSE IF IsHeaderRow(table[idx + 1])
         THEN <<[header_row |-> table[idx + 1], start_idx |-> idx + 1,
                 date_text |-> LookBack(table, idx, 1)]>> \o FindHeaders(table, idx + 1)
         ELSE FindHeaders(table, idx + 1)
\* the data rows of section i: up to the next header row or the end of the table
SectionRows(table, header_sections, i) ==
    LET end_idx == IF i + 1 <= Len(header_sections) THEN header_sections[i + 1].start_idx - 1
                   ELSE Len(table)
    IN  SubSeq(table, header_sections[i].start_idx + 1, end_idx)
\* the role a header cell names ("" for none), the rules in the code's order
HeaderRole(header) ==
    IF ~Truthy(header) THEN ""
    ELSE Bind(ReplaceNewline(Strip(Lower(header))), LAMBDA header_lower :
         IF Contains(header_lower, kw_weight) /\ Contains(header_lower, kw_category) THEN "weight_class_idx"
         ELSE IF header_lower = kw_weigh THEN "weigh_idx"
         ELSE IF Contains(header_lower, kw_date) THEN "date_idx"
         ELSE IF Contains(header_lower, kw_sess) THEN "session_idx"
         ELSE IF Contains(header_lower, kw_plat) THEN "platform_idx"
         ELSE IF Contains(header_lower, kw_time) THEN "time_idx"
         ELSE "")
\* header_map: each role's 0-based column, the last header cell naming it; NoneInt: role absent
HeaderRoles == {"date_idx", "session_idx", "platform_idx", "weigh_idx", "time_idx", "weight_class_idx"}
BuildHeaderMap(headers) ==
    Bind([i \in DOMAIN headers |-> HeaderRole(headers[i])], LAMBDA roles :
    [role \in HeaderRoles |->
        LET at == {i \in DOMAIN roles : roles[i] = role}
        IN  IF at = {} THEN NoneInt ELSE (CHOOSE i \in at : \A j \in at : j <= i) - 1])
\* header_map.get(role, default)
MapGet(header_map, role, default) == IF header_map[role] = NoneInt THEN default ELSE header_map[role]
\* ScheduleScraper._extract_entry_from_row: [entry (NoEntry for None), raised]
_extract_entry_from_row(row, header_map, meet_name, current_date0, current_session0) ==
    Bind(Cell(row, MapGet(header_map, "date_idx", 0)), LAMBDA date_str :
    Bind(Cell(row, MapGet(header_map, "session_idx", 1)), LAMBDA session_str :
    Bind(Cell(row, MapGet(header_map, "platform_idx", 2)), LAMBDA platform :
    Bind(Cell(row, MapGet(header_map, "weigh_idx", 3)), LAMBDA weigh_time_str :
    Bind(Cell(row, MapGet(header_map, "time_idx", 4)), LAMBDA start_time_str :
    Bind(IF Truthy(date_str) /\ HasMonthName(date_str)
         THEN _parse_date_from_text(date_str) ELSE None, LAMBDA parsed_date :
    Bind(IF Truthy(parsed_date) THEN parsed_date ELSE current_date0, LAMBDA current_date :
    Bind(IF Truthy(session_str) /\ IsDigitStr(session_str)
         THEN IntOf(session_str) ELSE current_session0, LAMBDA current_session :
    Bind(_parse_time(start_time_str), LAMBDA start_time :
    Bind(_parse_time(weigh_time_str), LAMBDA weigh_time :
    Bind([entry |-> NoEntry, raised |-> FALSE], LAMBDA none :
    IF ~Truthy(platform) \/ platform \notin {Red, White, Blue} THEN none
    ELSE IF ~Truthy(start_time_str) \/ ~Truthy(weigh_time_str) THEN none
    ELSE IF Truthy(session_str) /\ IsDigitStr(session_str) /\ IntRaises(session_str)
    THEN [entry |-> NoEntry, raised |-> TRUE]
    ELSE IF ~Truthy(current_date) \/ ~TruthyInt(current_session) THEN none
    ELSE IF start_time.tag = "raise" \/ weigh_time.tag = "raise" THEN [entry |-> NoEntry, raised |-> TRUE]
    ELSE IF start_time.tag = "none" \/ weigh_time.tag = "none" THEN none
    ELSE [entry |-> Entry(current_date, current_session, strftime_HMS(start_time),
                          strftime_HMS(weigh_time), platform,
                          StripGroupLetter(Cell(row, MapGet(header_map, "weight_class_idx", 7))),
                          meet_name),
          raised |-> FALSE])))))))))))
\* the date a section starts with: the date text above the header, else the first
\* parseable month-name date in the date column of the first 10 data rows, else None
RECURSIVE ScanDate(_, _, _)
ScanDate(data_rows, k, date_idx) ==
    IF k > Len(data_rows) \/ k > 10 THEN None
    ELSE LET row == data_rows[k]
         IN  Bind(IF RowMissing(row) \/ Len(row) <= date_idx THEN <<>>
                  ELSE CellText(row[date_idx + 1]), LAMBDA date_cell :
             Bind(IF Truthy(date_cell) /\ HasMonthName(date_cell)
                  THEN _parse_date_from_text(date_cell) ELSE None, LAMBDA parsed_date :
             IF Truthy(parsed_date) THEN parsed_date ELSE ScanDate(data_rows, k + 1, date_idx)))
SectionDate(data_rows, header_map, date_text) ==
    Bind(IF Truthy(date_text) THEN _parse_date_from_text(date_text) ELSE None, LAMBDA parsed_date :
    IF Truthy(parsed_date) THEN parsed_date
    ELSE ScanDate(data_rows, 1, MapGet(header_map, "date_idx", 0)))
\* `a or b` of two optional texts / two optional ints
OrText(a, b) == IF Truthy(a) THEN a ELSE b
OrInt(a, b) == IF TruthyInt(a) THEN a ELSE b
(* One iteration of the row loop of _parse_with_headers. c holds local_date,  *)
(* local_session and the instance attributes; the result adds entry.          *)
PrelimRowStep(c, row, header_map, meet_name) ==
    IF RowMissing(row) \/ AllBlank(row) THEN [c EXCEPT !.entry = NoEntry]
    ELSE Bind(_extract_entry_from_row(row, header_map, meet_name,
                                      OrText(c.local_date, c.self_current_date),
                                      OrInt(c.local_session, c.self_current_session)), LAMBDA r :
         IF r.raised \/ r.entry = NoEntry THEN [c EXCEPT !.entry = NoEntry]
         ELSE [local_date |-> r.entry.date, self_current_date |-> r.entry.date,
               local_session |-> r.entry.session_id, self_current_session |-> r.entry.session_id,
               entry |-> r.entry])
\* the locals of _parse_with_headers before its row loop
PrelimSectionStart(self_date, self_session, data_rows, header_map, date_text) ==
    Bind(SectionDate(data_rows, header_map, date_text), LAMBDA d :
    [local_date |-> d, self_current_date |-> IF Truthy(d) THEN d ELSE self_date,
     local_session |-> NoneInt, self_current_session |-> self_session, entry |-> NoEntry])
\* _parse_with_headers from data row k on: [entries, self_current_date, self_current_session]
RECURSIVE PrelimParseRows(_, _, _, _, _, _)
PrelimParseRows(c, data_rows, k, header_map, meet_name, entries) ==
    IF k > Len(data_rows)
    THEN [entries |-> entries, self_current_date |-> c.self_current_date,
          self_current_session |-> c.self_current_session]
    ELSE Bind(PrelimRowStep(c, data_rows[k], header_map, meet_name), LAMBDA g :
         IF g.entry = NoEntry
         THEN PrelimParseRows(g, data_rows, k + 1, header_map, meet_name, entries)
         ELSE PrelimParseRows(g, data_rows, k + 1, header_map, meet_name,
                              Append(entries, g.entry)))
_parse_with_headers(self_date, self_session, data_rows, headers, meet_name, date_text) ==
    Bind(BuildHeaderMap(headers), LAMBDA header_map :
    PrelimParseRows(PrelimSectionStart(self_date, self_session, data_rows, header_map, date_text),
                    data_rows, 1, header_map, meet_name, <<>>))
\* _extract_entry_from_row_pattern: a placeholder that returns None for every row
_extract_entry_from_row_pattern(row, meet_name) == NoEntry
\* _parse_without_headers: the entries of the rows with at least 4 cells
_parse_without_headers(table, meet_name) ==
    SelectSeq([k \in DOMAIN table |->
                  IF RowMissing(table[k]) \/ Len(table[k]) < 4 THEN NoEntry
                  ELSE _extract_entry_from_row_pattern(table[k], meet_name)],
              LAMBDA e : e # NoEntry)
\* ScheduleScraper._parse_table from section i on
RECURSIVE PrelimSections(_, _, _, _, _, _, _)
PrelimSections(self_date, self_session, table, header_sections, i, meet_name, entries) ==
    IF i > Len(header_sections)
    THEN [entries |-> entries, self_current_date |-> self_date, self_current_session |-> self_session]
    ELSE Bind(_parse_with_headers(self_date, self_session,
                                  SectionRows(table, header_sections, i),
                                  header_sections[i].header_row, meet_name,
                                  header_sections[i].date_text), LAMBDA r :
         IF r.entries = <<>>
         THEN PrelimSections(r.self_current_date, r.self_current_session, table,
                             header_sections, i + 1, meet_name, entries)
         ELSE PrelimSections(r.self_current_date, r.self_current_session, table,
                             header_sections, i + 1, meet_name, entries \o r.entries))
Prelim_parse_table(self_date, self_session, table, meet_name) ==
    Bind(FindHeaders(table, 0), LAMBDA header_sections :
    IF header_sections # <<>>
    THEN PrelimSections(self_date, self_session, table, header_sections, 1, meet_name, <<>>)
    ELSE [entries |-> _parse_without_headers(table, meet_name),
          self_current_date |-> self_date, self_current_session |-> self_session])

\* ------------------------------------------------------------------ Record Normalizer
\* all(formatted_entry.values()): every one of the seven fields is truthy
AllFieldsPresent(e) ==
    /\ Truthy(e.date) /\ TruthyInt(e.session_id) /\ Truthy(e.start_time) /\ Truthy(e.weigh_in_time)
    /\ Truthy(e.platform) /\ Truthy(e.weight_class) /\ Truthy(e.meet)
\* a normalizer that keeps every entry
format_keep_all(raw) == raw
\* a normalizer that does not look at the event name
format_without_meet(raw) ==
    SelectSeq(raw, LAMBDA e : AllFieldsPresent([e EXCEPT !.meet = <<"m">>]))
\* format_for_database(entries): the entries with all fields present, in order
format_for_database(raw) == SelectSeq(raw, AllFieldsPresent)

\* ------------------------------------------------------------------ keys
\* on_conflict='meet,session_id,platform,weight_class' (final)
FinalKey(e) == <<e.meet, e.session_id, e.platform, e.weight_class>>
\* on_conflict='date,session_id,platform,weight_class' (prelim)
PrelimKey(e) == <<e.date, e.session_id, e.platform, e.weight_class>>
KeyOf(kind, e) == IF kind = "final" THEN FinalKey(e) ELSE PrelimKey(e)
\* the values of a dict filled by `d[key(e)] = e` over a list: one entry per key, at the
\* place of the key's first entry, holding the key's last entry
DictValues(kind, list) ==
    LET last(i) == CHOOSE j \in DOMAIN list :
                      /\ KeyOf(kind, list[j]) = KeyOf(kind, list[i])
                      /\ \A k \in DOMAIN list : KeyOf(kind, list[k]) = KeyOf(kind, list[i]) => k <= j
        first(i) == \A k \in 1..(i - 1) : KeyOf(kind, list[k]) # KeyOf(kind, list[i])
    IN  Bind(SelectSeq([i \in DOMAIN list |-> i], first), LAMBDA idx :
        [n \in DOMAIN idx |-> list[last(idx[n])]])
\* the batch upsert_to_database hands to the store: deduplicated by the final scraper,
\* the entries as they are by the prelim scraper
\* a deduplication that keeps the first entry of each key
DeduplicateFirstSeen(list) ==
    SelectSeq(list, LAMBDA e : \A i, j \in DOMAIN list :
                 list[j] = e /\ FinalKey(list[i]) = FinalKey(e) => j <= i)
Deduplicate(list) == DictValues("final", list)
UpsertBatch(kind, list) == IF kind = "final" THEN Deduplicate(list) ELSE list
HasDuplicateKeys(kind, list) ==
    \E i, j \in DOMAIN list : i # j /\ KeyOf(kind, list[i]) = KeyOf(kind, list[j])

\* ------------------------------------------------------------------ Record Store
\* table('session_schedule').select('*').eq('meet', meet_name)
Query(rows, meet) == {r \in rows : r.meet = meet}
\* an upsert that replaces the rows of the events of the batch
UpsertReplacingEvent(rows, kind, list) ==
    {r \in rows : \A i \in DOMAIN list : list[i].meet # r.meet} \cup Range(list)
\* table('session_schedule').upsert(batch, on_conflict=<key of kind>): a row of the batch
\* replaces the stored row with its key, or is inserted
Upsert(rows, kind, list) ==
    {r \in rows : \A i \in DOMAIN list : KeyOf(kind, list[i]) # KeyOf(kind, r)} \cup Range(list)
\* the statement is rejected as a whole when two rows of the batch have the same key
UpsertRejects(kind, list) == HasDuplicateKeys(kind, list)

\* ------------------------------------------------------------------ Reconciliation Engine
\* the stored record dry_run compares a new entry with (existing_by_key[key])
ExistingByKey(kind, existing, e) == CHOOSE r \in existing : KeyOf(kind, r) = KeyOf(kind, e)
\* str(value): the text itself, 'None' for None
Str(value) == IF value = None THEN <<"N", "o", "n", "e">> ELSE value
\* a comparison that looks at the weigh-in time alone
DiffersOnWeighInOnly(kind, old, new) == old.weigh_in_time # new.weigh_in_time
\* the tracked fields differ: str() of the stored date against the new date (final only;
\* the prelim key holds the date) and the two times
Differs(kind, old, new) ==
    \/ kind = "final" /\ Str(old.date) # new.date
    \/ old.start_time # new.start_time
    \/ old.weigh_in_time # new.weigh_in_time
\* dry_run(meet_name, new_entries) against the stored rows
dry_run(kind, rows, meet, new_entries) ==
    Bind(Query(rows, meet), LAMBDA existing :
    Bind({KeyOf(kind, r) : r \in existing}, LAMBDA keys :
    Bind(DictValues(kind, new_entries), LAMBDA new_by_key :
    LET hit(e) == KeyOf(kind, e) \in keys
        changed(e) == hit(e) /\ Differs(kind, ExistingByKey(kind, existing, e), e)
        same(e) == hit(e) /\ ~Differs(kind, ExistingByKey(kind, existing, e), e)
    IN  Bind(SelectSeq(new_by_key, changed), LAMBDA upd :
        [total_new |-> Len(new_entries),
         total_existing |-> Cardinality(existing),
         to_add |-> SelectSeq(new_by_key, LAMBDA e : ~hit(e)),
         to_update |-> [i \in DOMAIN upd |->
                           [existing |-> ExistingByKey(kind, existing, upd[i]), new |-> upd[i]]],
         unchanged |-> SelectSeq(new_by_key, same)]))))
NoStats == [total_new |-> 0, total_existing |-> 0, to_add |-> <<>>, to_update |-> <<>>, unchanged |-> <<>>]

\* upsert_to_database(entries) against the stored rows: the batch handed to the store
\* (<<>>: the store is not called), whether the store rejects it, the rows afterwards
upsert_to_database(kind, rows, entries) ==
    Bind(IF entries = <<>> THEN <<>> ELSE UpsertBatch(kind, entries), LAMBDA list :
    Bind(list # <<>> /\ UpsertRejects(kind, list), LAMBDA rejected :
    [batch |-> list, rejected |-> rejected,
     removed |-> Len(entries) - Len(list),
     rows |-> IF list = <<>> \/ rejected THEN rows ELSE Upsert(rows, kind, list)]))

\* ------------------------------------------------------------------ documents
\* The rows the tables of a document are drawn from. Final schedule rows have the
\* cells date, session, platform, weigh-in, start, (unused), weight category.
\* a row that names the date and the session
FA == <<<<"S", "a", "t", "\n", "J", "u", "n", " ", "2", "1">>, <<"1">>, <<"R", "E", "D">>, <<"7", ":", "0", "0">>, <<"9", ":", "0", "0">>, <<>>, <<"8", "1", " ", "A">>>>
\* a row that omits both, at a later start time; its category strips to FA's
FB == <<<<>>, <<>>, <<"R", "E", "D">>, <<"7", ":", "0", "0">>, <<"9", ":", "3", "0">>, <<>>, <<"8", "1", " ", "B">>>>
\* the next session on the next day
FC == <<<<"S", "u", "n", "\n", "J", "u", "n", " ", "2", "2">>, <<"2">>, <<"R", "E", "D">>, <<"7", ":", "0", "0">>, <<"1", "0", ":", "0", "0">>, <<>>, <<"8", "1">>>>
\* a row without a weight category
FD == <<<<>>, <<>>, <<"W", "H", "I", "T", "E">>, <<"7", ":", "0", "0">>, <<"9", ":", "0", "0">>, <<>>, <<>>>>
\* a start time no clock shows: _parse_time raises ValueError
FE == <<<<>>, <<>>, <<"B", "L", "U", "E">>, <<"7", ":", "0", "0">>, <<"2", "5", ":", "0", "0">>, <<>>, <<"8", "9">>>>
\* a row that only names a date
FH == <<<<"S", "u", "n", "\n", "J", "u", "n", " ", "2", "2">>, <<>>, <<>>, <<>>, <<>>, <<>>, <<>>>>
\* a row that names the session but no date
FJ == <<<<>>, <<"1">>, <<"R", "E", "D">>, <<"7", ":", "0", "0">>, <<"9", ":", "0", "0">>, <<>>, <<"8", "1">>>>
\* a RED row at a later start time: a new session begins
FN == <<<<>>, <<>>, <<"R", "E", "D">>, <<"7", ":", "0", "0">>, <<"1", "1", ":", "0", "0">>, <<>>, <<"9", "6">>>>
\* a row with fewer than 7 cells
FS == <<<<"1">>, <<"R", "E", "D">>>>
\* a RED row that omits date and session, at FA's start time
FK == <<<<>>, <<>>, <<"R", "E", "D">>, <<"7", ":", "0", "0">>, <<"9", ":", "0", "0">>, <<>>, <<"8", "9">>>>
\* a RED row at a later start time that lacks its weigh-in time
FR == <<<<>>, <<>>, <<"R", "E", "D">>, <<>>, <<"1", "1", ":", "0", "0">>, <<>>, <<"9", "6">>>>
\* a row whose session cell is 0
F0 == <<<<>>, <<"0">>, <<"R", "E", "D">>, <<"7", ":", "0", "0">>, <<"9", ":", "3", "0">>, <<>>, <<"8", "1">>>>
\* a row whose session cell is no number
FX == <<<<>>, <<"x">>, <<"R", "E", "D">>, <<"7", ":", "0", "0">>, <<"9", ":", "3", "0">>, <<>>, <<"8", "1">>>>
\* the header row of a prelim schedule table
PH == <<<<"D", "a", "t", "e">>, <<"S", "e", "s", "s">>, <<"P", "l", "a", "t", "f", "o", "r", "m">>, <<"W", "e", "i", "g", "h">>, <<"T", "i", "m", "e">>, <<"W", "e", "i", "g", "h", "t", " ", "C", "a", "t", "e", "g", "o", "r", "y">>>>
\* a title row above a header: the date of the section
PT == <<<<"S", "u", "n", "d", "a", "y", " ", "J", "u", "n", "e", " ", "2", "2", ",", " ", "2", "0", "2", "5">>, None, None, None, None, None>>
\* a row that names the date and the session
PA == <<<<"S", "a", "t", "u", "r", "d", "a", "y", " ", "J", "u", "n", "e", " ", "2", "1", ",", " ", "2", "0", "2", "5">>, <<"1">>, <<"R", "e", "d">>, <<"7", ":", "0", "0">>, <<"9", ":", "0", "0">>, <<"8", "1", " ", "A">>>>
\* a row that omits both, at a later start time; its category strips to PA's
PB == <<<<>>, <<>>, <<"R", "e", "d">>, <<"7", ":", "0", "0">>, <<"9", ":", "3", "0">>, <<"8", "1", " ", "B">>>>
\* the next session on the next day
PC == <<<<"S", "u", "n", "d", "a", "y", " ", "J", "u", "n", "e", " ", "2", "2", ",", " ", "2", "0", "2", "5">>, <<"2">>, <<"R", "e", "d">>, <<"7", ":", "0", "0">>, <<"1", "0", ":", "0", "0">>, <<"8", "1">>>>
\* a row without a weight category
PD == <<<<>>, <<>>, <<"W", "h", "i", "t", "e">>, <<"7", ":", "0", "0">>, <<"9", ":", "0", "0">>, <<>>>>
\* a start time no clock shows: _parse_time raises ValueError
PE == <<<<>>, <<>>, <<"B", "l", "u", "e">>, <<"7", ":", "0", "0">>, <<"2", "5", ":", "0", "0">>, <<"8", "9">>>>
\* a row that names a date and a session, but no platform
PG == <<<<"S", "u", "n", "d", "a", "y", " ", "J", "u", "n", "e", " ", "2", "2", ",", " ", "2", "0", "2", "5">>, <<"2">>, <<>>, <<>>, <<>>, <<>>>>
\* a row of empty cells
PN == <<None, None, None, None, None, None>>
\* a row whose session cell is 0
P0 == <<<<>>, <<"0">>, <<"R", "e", "d">>, <<"7", ":", "0", "0">>, <<"9", ":", "3", "0">>, <<"8", "1">>>>
\* a row whose session cell is no number
PX == <<<<>>, <<"x">>, <<"R", "e", "d">>, <<"7", ":", "0", "0">>, <<"9", ":", "3", "0">>, <<"8", "1">>>>
\* rows whose session cell is a superscript digit: str.isdigit() holds, int() raises
F2 == <<<<>>, <<"²">>, <<"R", "E", "D">>, <<"7", ":", "0", "0">>, <<"9", ":", "3", "0">>, <<>>, <<"8", "1">>>>
P2 == <<<<>>, <<"²">>, <<"R", "e", "d">>, <<"7", ":", "0", "0">>, <<"9", ":", "3", "0">>, <<"8", "1">>>>
\* a WHITE row without a session number, a BLUE row with one
FW == <<<<>>, <<>>, <<"W", "H", "I", "T", "E">>, <<"7", ":", "0", "0">>, <<"9", ":", "3", "0">>, <<>>, <<"8", "9">>>>
FV == <<<<>>, <<"2">>, <<"B", "L", "U", "E">>, <<"7", ":", "0", "0">>, <<"1", "0", ":", "0", "0">>, <<>>, <<"9", "6">>>>
\* FA's session, platform and category on the next day
FM == <<<<"S", "u", "n", "\n", "J", "u", "n", " ", "2", "2">>, <<"1">>, <<"R", "E", "D">>, <<"7", ":", "0", "0">>, <<"9", ":", "0", "0">>, <<>>, <<"8", "1">>>>
\* FC's session, platform, category and start time with a later weigh-in
FQ == <<<<>>, <<"2">>, <<"R", "E", "D">>, <<"7", ":", "3", "0">>, <<"1", "0", ":", "0", "0">>, <<>>, <<"8", "1">>>>
\* PA with a later weigh-in
PQ == [PA EXCEPT ![4] = <<"7", ":", "3", "0">>]
\* the rows of the documents of a full run, and of a parse alone
RunRowsFinal == {FA, FB, FC, FD, FM, FQ}
ParseRowsFinal == {FA, FB, FE, FH, FJ, FN, FS, FK, FR, F0, FX, F2}
\* rows of the three platforms, with and without a session number, a short row and
\* a row without a weigh-in time
PlatformRowsFinal == {FA, FK, FB, FW, FV, FS, FR}
\* the tables of prelim documents: one section (a title row or none, the header row,
\* data rows), two sections, and a table without a header row
SeqsUpTo(S, n) == UNION {[1..k -> S] : k \in 1..n}
OneSection(titles, rows, n) == {t \o <<PH>> \o d : t \in titles, d \in SeqsUpTo(rows, n)}
RunTablesPrelim == OneSection({<<>>}, {PA, PB, PC, PD, PQ}, 2)
ParseTablesPrelim ==
    OneSection({<<>>, <<PT>>}, {PA, PB, PE, PG, PN, P0, PX, P2}, 2)
        \cup {<<PH, PA, PH, PB>>, <<PA, PB>>, <<PT, PH>>, <<PA>>}
\* weight-category cells: with a group letter, without one, with a letter outside
\* A-E, with two groups, with a letter that no space sets off, with two spaces
WeightCategories ==
    {<<"8", "1", " ", "A">>, <<"8", "1">>, <<"8", "1", " ", "F">>,
     <<"8", "1", " ", "A", " ", "B">>, <<"8", "1", "A">>, <<"8", "1", " ", " ", "E">>}
\* complete rows that differ in the weight category only
WeightRowsFinal == {[FA EXCEPT ![7] = w] : w \in WeightCategories}
WeightRowsPrelim == {[PA EXCEPT ![6] = w] : w \in WeightCategories}
\* event names: two events and the empty name
A == <<"A">>
B == <<"B">>
Meets == {A, B, <<>>}

\* ------------------------------------------------------------------ bounds
\* runs of main() against one store; calls of extract_schedule_data on one instance
MaxRuns == 2
\* a parse alone: rows of one table, rows of one document (final), tables of one
\* document (prelim)
MaxTableRows == 4
MaxRows == 4
MaxTables == 2
\* a full run: rows of one document (final), tables of one document (prelim)
MaxRunRows == 2
MaxRunTables == 1
\* documents of weight-category rows: rows of one table
MaxWeightRows == 2

\* ------------------------------------------------------------------ state
VARIABLES
    scraper,              \* "final": FinalScheduleScraper, "prelim": ScheduleScraper
    pc,                   \* where the call in progress stands
    run_mode,             \* "upsert", "dry_run", "csv", "extract"
    meet_name,
    self_current_date,    \* self.current_date
    self_current_session, \* self.current_session (prelim)
    schedule_entries,     \* extract_schedule_data's list
    raw_entries,          \* what extract_schedule_data returned
    entries,              \* _parse_table's list
    current_session, current_date, last_start_time,   \* locals of final _parse_table
    rows_left,            \* rows of the current table still to come (final)
    header_sections,      \* sections of the current table still to parse (prelim)
    table,                \* the current table (prelim)
    data_rows,            \* data rows of the current section still to parse
    header_map, local_date, local_session,            \* locals of _parse_with_headers
    row, entry,           \* the row parsed last and the entry it gave
    formatted_entries,    \* what format_for_database returned
    batch,                \* the rows handed to the store's upsert
    removed,              \* the duplicates upsert_to_database reports as removed
    stats,                \* dry_run's lists
    exported,             \* the rows written by export_to_csv
    result,
    store,                \* the rows of session_schedule
    store_calls,          \* the statements the call in progress sent to the store
    runs, rows_used, tables_used,
    fresh,                \* a new instance parsing the same document in step
    est_date, est_session, \* the date and session the document's rows established so far
    trail,                \* the rows of the current table parsed so far, with what each did
    fetches               \* the downloads the call in progress asked for

parse_vars == <<schedule_entries, entries, current_session, current_date, last_start_time,
                rows_left, header_sections, table, data_rows, header_map, local_date,
                local_session, row, entry, rows_used, tables_used, fresh, est_date, est_session,
                trail>>
self_vars == <<self_current_date, self_current_session>>
run_vars == <<formatted_entries, batch, removed, stats, exported, store, store_calls, fetches>>
vars == <<scraper, pc, run_mode, meet_name, raw_entries, result, runs,
          self_vars, parse_vars, run_vars>>

NoMap == [role \in HeaderRoles |-> NoneInt]
NoResult == [success |-> FALSE, dry_run |-> FALSE, error |-> "none"]
Failure(msg) == [success |-> FALSE, dry_run |-> FALSE, error |-> msg]
Success(dry) == [success |-> TRUE, dry_run |-> dry, error |-> ""]
\* what a row did: the entry it gave (NoEntry: none), the running session and the
\* last recorded RED start time before and after it
TrailItem(r, e, session_before, tracker_before, session_after, tracker_after) ==
    [row |-> r, entry |-> e, session_before |-> session_before,
     tracker_before |-> tracker_before, session_after |-> session_after,
     tracker_after |-> tracker_after]
\* the parse state of a new instance before its first table
FreshStart ==
    [self_current_date |-> None, self_current_session |-> NoneInt, schedule_entries |-> <<>>,
     entries |-> <<>>, current_session |-> NoneInt, current_date |-> None,
     last_start_time |-> None, local_date |-> None, local_session |-> NoneInt]

\* the state after __init__
Init ==
    /\ scraper \in {"final", "prelim"}
    /\ pc = "idle" /\ run_mode = "none" /\ meet_name = None
    /\ self_current_date = None /\ self_current_session = NoneInt
    /\ schedule_entries = <<>> /\ raw_entries = <<>> /\ entries = <<>>
    /\ current_session = NoneInt /\ current_date = None /\ last_start_time = None
    /\ rows_left = 0 /\ header_sections = <<>> /\ table = <<>> /\ data_rows = <<>>
    /\ header_map = NoMap /\ local_date = None /\ local_session = NoneInt
    /\ row = <<>> /\ entry = NoEntry
    /\ formatted_entries = <<>> /\ batch = <<>> /\ removed = 0 /\ stats = NoStats
    /\ exported = <<>>
    /\ result = NoResult /\ store = {} /\ store_calls = <<>>
    /\ runs = 0 /\ rows_used = 0 /\ tables_used = 0
    /\ fresh = FreshStart /\ est_date = None /\ est_session = NoneInt
    /\ trail = <<>> /\ fetches = 0

\* ------------------------------------------------------------------ calls
\* what every call clears: the outputs of the call before
ClearOutputs ==
    /\ raw_entries' = <<>> /\ formatted_entries' = <<>> /\ batch' = <<>> /\ removed' = 0
    /\ stats' = NoStats /\ exported' = <<>> /\ store_calls' = <<>> /\ result' = NoResult
\* extract_schedule_data up to its first table: schedule_entries = [], and the prelim
\* scraper alone resets self.current_date and self.current_session
EnterExtract ==
    /\ pc' = "doc"
    /\ schedule_entries' = <<>> /\ rows_used' = 0 /\ tables_used' = 0
    /\ self_current_date' = IF scraper = "prelim" THEN None ELSE self_current_date
    /\ self_current_session' = IF scraper = "prelim" THEN NoneInt ELSE self_current_session
    /\ fresh' = FreshStart /\ est_date' = None /\ est_session' = NoneInt
    /\ row' = <<>> /\ entry' = NoEntry /\ trail' = <<>>
    /\ UNCHANGED <<entries, current_session, current_date, last_start_time, rows_left,
                   header_sections, table, data_rows, header_map, local_date, local_session>>
\* main() up to the download: every run builds its own instance (final 411, prelim
\* 625), whose current_date is None (final 40; the prelim scraper has no such attribute
\* before extract_schedule_data sets it, 73-74), in the mode the arguments ask for
NewRun(meet, mode) ==
    /\ pc = "idle" /\ runs < MaxRuns
    /\ pc' = "download"
    /\ runs' = runs + 1 /\ meet_name' = meet /\ run_mode' = mode
    /\ self_current_date' = None /\ self_current_session' = NoneInt
    /\ fetches' = 0
    /\ ClearOutputs
    /\ UNCHANGED <<scraper, store, parse_vars>>
\* main() without --csv: scrape_and_upsert(args.url, args.meet_name, dry_run=args.dry_run)
\* on the new instance
main_upsert(meet, dry) == NewRun(meet, IF dry THEN "dry_run" ELSE "upsert")
\* main() with --csv, final scraper only: download and extract outside any try
main_csv(meet) == scraper = "final" /\ NewRun(meet, "csv")
\* a download that is tried again after it failed
download_pdf_retried(download_ok) ==
    /\ pc = "download"
    /\ fetches' = fetches + 1
    /\ UNCHANGED <<scraper, store, runs, meet_name, run_mode, raw_entries, formatted_entries,
                   batch, removed, stats, exported, store_calls>>
    /\ IF download_ok
       THEN EnterExtract /\ UNCHANGED result
       ELSE UNCHANGED <<pc, result, self_vars, parse_vars>>
\* download_pdf(url): one requests.get; raise_for_status raises on a failed download,
\* which scrape_and_upsert catches and reports and which ends main() with --csv; on
\* success extract_schedule_data begins
download_pdf(download_ok) ==
    /\ pc = "download"
    /\ fetches' = fetches + 1
    /\ UNCHANGED <<scraper, store, runs, meet_name, run_mode, raw_entries, formatted_entries,
                   batch, removed, stats, exported, store_calls>>
    /\ IF download_ok
       THEN EnterExtract /\ UNCHANGED result
       ELSE /\ result' = Failure("download") /\ pc' = "idle"
            /\ UNCHANGED <<self_vars, parse_vars>>
\* extract_schedule_data(pdf_file, meet_name) called on the instance
extract_schedule_data(meet) ==
    /\ pc = "idle" /\ runs < MaxRuns
    /\ runs' = runs + 1 /\ meet_name' = meet /\ run_mode' = "extract"
    /\ fetches' = 0
    /\ UNCHANGED <<scraper, store>>
    /\ ClearOutputs /\ EnterExtract

\* ------------------------------------------------------------------ final: tables and rows
\* the date a final row names (None: none), the session it names (NoneInt: none)
FinalRowDate(r) ==
    IF RowMissing(r) \/ Len(r) < 7 THEN None
    ELSE IF Truthy(Cell(r, 0)) /\ HasMonthAbbr(Cell(r, 0)) THEN _parse_date_from_short(Cell(r, 0))
    ELSE None
FinalRowSession(r) ==
    IF RowMissing(r) \/ Len(r) < 7 THEN NoneInt
    ELSE IF Truthy(Cell(r, 1)) /\ IsDigitStr(Cell(r, 1)) /\ ~IntRaises(Cell(r, 1))
    THEN IntOf(Cell(r, 1))
    ELSE NoneInt
\* the parse state FinalRowStep works on
FinalLocals(cs, cd, ls, sd) ==
    [current_session |-> cs, current_date |-> cd, last_start_time |-> ls,
     self_current_date |-> sd, entry |-> NoEntry, raised |-> FALSE]
\* the next table of the document, of n rows: skipped below 2 rows, else _parse_table
\* starts with current_session = None, current_date = self.current_date
FinalBeginTable(n, max_rows) ==
    /\ pc = "doc" /\ scraper = "final" /\ rows_used + n <= max_rows
    /\ rows_used' = rows_used + n /\ trail' = <<>>
    /\ IF n < 2
       THEN UNCHANGED <<pc, rows_left, entries, current_session, current_date,
                        last_start_time, fresh>>
       ELSE /\ pc' = "rows" /\ rows_left' = n /\ entries' = <<>>
            /\ current_session' = NoneInt /\ current_date' = self_current_date
            /\ last_start_time' = None
            /\ fresh' = [fresh EXCEPT !.entries = <<>>, !.current_session = NoneInt,
                                      !.current_date = fresh.self_current_date,
                                      !.last_start_time = None]
    /\ UNCHANGED <<scraper, run_mode, meet_name, raw_entries, result, runs, self_vars, run_vars,
                   schedule_entries, header_sections, table, data_rows, header_map,
                   local_date, local_session, row, entry, tables_used, est_date, est_session>>
\* one row of the current table; after the table's last row the entries join
\* schedule_entries; a ValueError from _parse_time ends the call
FinalParseRow(r) ==
    /\ pc = "rows" /\ scraper = "final" /\ rows_left > 0
    /\ Bind(FinalLocals(current_session, current_date, last_start_time, self_current_date),
            LAMBDA f :
       Bind(FinalRowStep(f, r, meet_name), LAMBDA g :
       Bind(FinalLocals(fresh.current_session, fresh.current_date, fresh.last_start_time,
                        fresh.self_current_date), LAMBDA sf :
       Bind(IF sf = f THEN g ELSE FinalRowStep(sf, r, meet_name), LAMBDA sg :
       Bind(IF g.entry = NoEntry THEN entries ELSE Append(entries, g.entry), LAMBDA got :
       Bind(IF sg.entry = NoEntry THEN fresh.entries ELSE Append(fresh.entries, sg.entry),
            LAMBDA sgot :
       Bind(rows_left = 1, LAMBDA last :
       Bind(FinalRowDate(r), LAMBDA new_date :
       Bind(FinalRowSession(r), LAMBDA new_session :
           /\ row' = r /\ entry' = g.entry
           /\ trail' = Append(trail, TrailItem(r, g.entry, f.current_session, f.last_start_time,
                                               g.current_session, g.last_start_time))
           /\ self_current_date' = g.self_current_date
           /\ est_date' = IF Truthy(new_date) THEN new_date ELSE est_date
           /\ est_session' = IF new_session # NoneInt THEN new_session
                             ELSE IF g.entry # NoEntry
                                  THEN est_session + (g.current_session - f.current_session)
                                  ELSE est_session
           /\ IF g.raised
              THEN /\ pc' = "idle" /\ result' = Failure("ValueError")
                   /\ rows_left' = 0 /\ entries' = <<>> /\ schedule_entries' = <<>>
                   /\ current_session' = NoneInt /\ current_date' = None
                   /\ last_start_time' = None
                   /\ fresh' = [FreshStart EXCEPT !.self_current_date = sg.self_current_date]
              ELSE /\ pc' = IF last THEN "doc" ELSE "rows"
                   /\ rows_left' = rows_left - 1
                   /\ entries' = IF last THEN <<>> ELSE got
                   /\ schedule_entries' = IF last THEN schedule_entries \o got
                                          ELSE schedule_entries
                   /\ current_session' = IF last THEN NoneInt ELSE g.current_session
                   /\ current_date' = IF last THEN None ELSE g.current_date
                   /\ last_start_time' = IF last THEN None ELSE g.last_start_time
                   /\ fresh' = [fresh EXCEPT
                          !.self_current_date = sg.self_current_date,
                          !.entries = IF last THEN <<>> ELSE sgot,
                          !.schedule_entries = IF last THEN fresh.schedule_entries \o sgot ELSE @,
                          !.current_session = IF last THEN NoneInt ELSE sg.current_session,
                          !.current_date = IF last THEN None ELSE sg.current_date,
                          !.last_start_time = IF last THEN None ELSE sg.last_start_time]
                   /\ UNCHANGED result)))))))))
    /\ UNCHANGED <<scraper, run_mode, meet_name, raw_entries, runs, self_current_session,
                   run_vars, header_sections, table, data_rows, header_map, local_date,
                   local_session, rows_used, tables_used>>

\* ------------------------------------------------------------------ the end of a call
\* extract_schedule_data returns schedule_entries after the last table
ReturnExtract ==
    /\ pc = "doc"
    /\ raw_entries' = schedule_entries /\ schedule_entries' = <<>>
    /\ pc' = IF run_mode = "extract" THEN "idle" ELSE "extracted"
    /\ result' = IF run_mode = "extract" THEN Success(FALSE) ELSE result
    /\ row' = <<>> /\ entry' = NoEntry /\ rows_used' = 0 /\ tables_used' = 0
    /\ est_date' = None /\ est_session' = NoneInt /\ trail' = <<>>
    /\ UNCHANGED <<scraper, run_mode, meet_name, runs, self_vars, run_vars, entries,
                   current_session, current_date, last_start_time, rows_left, header_sections,
                   table, data_rows, header_map, local_date, local_session, fresh>>
\* a dry run that applies what it reports
DryRunThatApplies(dry, kind, rows, meet, formatted) ==
    Bind(upsert_to_database(kind, rows, formatted), LAMBDA u :
    IF dry
    THEN [calls |-> <<"select", "upsert">>, stats |-> dry_run(kind, rows, meet, formatted),
          batch |-> u.batch, removed |-> u.removed, rejected |-> u.rejected, rows |-> u.rows]
    ELSE [calls |-> <<"upsert">>, stats |-> NoStats,
          batch |-> u.batch, removed |-> u.removed, rejected |-> u.rejected, rows |-> u.rows])
\* an upsert that is sent a second time
UpsertSentTwice(dry, kind, rows, meet, formatted) ==
    IF dry
    THEN [calls |-> <<"select">>, stats |-> dry_run(kind, rows, meet, formatted),
          batch |-> <<>>, removed |-> 0, rejected |-> FALSE, rows |-> rows]
    ELSE Bind(upsert_to_database(kind, rows, formatted), LAMBDA u :
         [calls |-> <<"upsert", "upsert">>, stats |-> NoStats,
          batch |-> u.batch, removed |-> u.removed, rejected |-> u.rejected, rows |-> u.rows])
\* `if dry_run: self.dry_run(...) else: self.upsert_to_database(...)` of
\* scrape_and_upsert: the statements sent to the store, what they return, the rows after
DryRunOrUpsert(dry, kind, rows, meet, formatted) ==
    IF dry
    THEN [calls |-> <<"select">>, stats |-> dry_run(kind, rows, meet, formatted),
          batch |-> <<>>, removed |-> 0, rejected |-> FALSE, rows |-> rows]
    ELSE Bind(upsert_to_database(kind, rows, formatted), LAMBDA u :
         [calls |-> <<"upsert">>, stats |-> NoStats,
          batch |-> u.batch, removed |-> u.removed, rejected |-> u.rejected, rows |-> u.rows])
\* the rest of scrape_and_upsert, or of main() with --csv, once the entries are
\* extracted; store_ok: the store answers (else the client raises)
Finish(store_ok) ==
    /\ pc = "extracted" /\ pc' = "idle"
    /\ Bind(format_for_database(raw_entries), LAMBDA formatted :
           IF run_mode = "csv"
           THEN /\ formatted_entries' = formatted
                /\ exported' = formatted
                /\ result' = IF formatted # <<>> THEN Success(FALSE)
                             ELSE Failure("No data to export")
                /\ UNCHANGED <<batch, removed, stats, store, store_calls, fetches>>
           ELSE IF raw_entries = <<>>
           THEN /\ result' = Failure("No data extracted")
                /\ UNCHANGED run_vars
           ELSE IF formatted = <<>>
           THEN /\ result' = Failure("No valid entries after formatting")
                /\ UNCHANGED run_vars
           ELSE Bind(DryRunOrUpsert(run_mode = "dry_run", scraper, store, meet_name, formatted),
                     LAMBDA o :
                /\ formatted_entries' = formatted
                /\ store_calls' = o.calls
                /\ batch' = o.batch /\ removed' = o.removed
                /\ stats' = IF store_ok THEN o.stats ELSE NoStats
                /\ store' = IF store_ok THEN o.rows ELSE store
                /\ result' = IF store_ok /\ ~o.rejected THEN Success(run_mode = "dry_run")
                             ELSE Failure("store")
                /\ UNCHANGED <<exported, fetches>>))
    /\ UNCHANGED <<scraper, run_mode, meet_name, raw_entries, runs, self_vars, parse_vars>>

\* ------------------------------------------------------------------ prelim: tables, sections, rows
\* the date a prelim row names in its date column, the session it names
PrelimRowDate(r, hm) ==
    LET date_str == IF RowMissing(r) THEN <<>> ELSE Cell(r, MapGet(hm, "date_idx", 0))
    IN  IF Truthy(date_str) /\ HasMonthName(date_str) THEN _parse_date_from_text(date_str) ELSE None
PrelimRowSession(r, hm) ==
    LET session_str == IF RowMissing(r) THEN <<>> ELSE Cell(r, MapGet(hm, "session_idx", 1))
    IN  IF Truthy(session_str) /\ IsDigitStr(session_str) /\ ~IntRaises(session_str)
        THEN IntOf(session_str) ELSE NoneInt
\* the parse state PrelimRowStep works on
PrelimLocals(ld, sd, ls, ss) ==
    [local_date |-> ld, self_current_date |-> sd, local_session |-> ls,
     self_current_session |-> ss, entry |-> NoEntry]
\* the next table of the document: skipped below 2 rows; without a header row
\* _parse_without_headers gives its entries at once; else its sections follow
PrelimBeginTable(t, max_tables) ==
    /\ pc = "doc" /\ scraper = "prelim" /\ tables_used < max_tables
    /\ tables_used' = tables_used + 1
    /\ Bind(FindHeaders(t, 0), LAMBDA hs :
           IF Len(t) < 2
           THEN /\ trail' = <<>>
                /\ UNCHANGED <<pc, table, header_sections, entries, schedule_entries, fresh>>
           ELSE IF hs = <<>>
           THEN /\ schedule_entries' = schedule_entries \o _parse_without_headers(t, meet_name)
                /\ trail' = [k \in DOMAIN t |->
                                TrailItem(t[k],
                                          IF RowMissing(t[k]) \/ Len(t[k]) < 4 THEN NoEntry
                                          ELSE _extract_entry_from_row_pattern(t[k], meet_name),
                                          self_current_session, None,
                                          self_current_session, None)]
                /\ fresh' = [fresh EXCEPT !.schedule_entries =
                                @ \o _parse_without_headers(t, meet_name)]
                /\ UNCHANGED <<pc, table, header_sections, entries>>
           ELSE /\ pc' = "sections" /\ table' = t /\ header_sections' = hs /\ entries' = <<>>
                /\ trail' = <<>>
                /\ fresh' = [fresh EXCEPT !.entries = <<>>]
                /\ UNCHANGED schedule_entries)
    /\ UNCHANGED <<scraper, run_mode, meet_name, raw_entries, result, runs, self_vars, run_vars,
                   current_session, current_date, last_start_time, rows_left, data_rows,
                   header_map, local_date, local_session, row, entry, rows_used,
                   est_date, est_session>>
\* what the end of a section's rows does: the next section, or the end of the table,
\* whose entries join schedule_entries
EndSection(got, sgot, sc) ==
    LET last == header_sections' = <<>>
    IN  /\ pc' = IF last THEN "doc" ELSE "sections"
        /\ table' = IF last THEN <<>> ELSE table
        /\ entries' = IF last THEN <<>> ELSE got
        /\ schedule_entries' = IF last THEN schedule_entries \o got ELSE schedule_entries
        /\ header_map' = NoMap /\ local_date' = None /\ local_session' = NoneInt
        /\ fresh' = [fresh EXCEPT
               !.self_current_date = sc.self_current_date,
               !.self_current_session = sc.self_current_session,
               !.local_date = None, !.local_session = NoneInt,
               !.entries = IF last THEN <<>> ELSE sgot,
               !.schedule_entries = IF last THEN @ \o sgot ELSE @]
\* _parse_with_headers up to its row loop: the header map, the section's date
PrelimBeginSection ==
    /\ pc = "sections" /\ scraper = "prelim"
    /\ Bind(SectionRows(table, header_sections, 1), LAMBDA rows :
       Bind(BuildHeaderMap(header_sections[1].header_row), LAMBDA hm :
       Bind(header_sections[1].date_text, LAMBDA date_text :
       Bind(PrelimSectionStart(self_current_date, self_current_session, rows, hm, date_text),
            LAMBDA c :
       Bind(IF fresh.self_current_date = self_current_date
               /\ fresh.self_current_session = self_current_session
            THEN c
            ELSE PrelimSectionStart(fresh.self_current_date, fresh.self_current_session,
                                    rows, hm, date_text), LAMBDA sc :
       Bind(IF Truthy(date_text) THEN _parse_date_from_text(date_text) ELSE None,
            LAMBDA title_date :
           /\ header_sections' = Tail(header_sections)
           /\ trail' = Append(trail, TrailItem(header_sections[1].header_row, NoEntry,
                                               self_current_session, None,
                                               self_current_session, None))
           /\ self_current_date' = c.self_current_date
           /\ est_date' = IF Truthy(title_date) THEN title_date ELSE est_date
           /\ data_rows' = rows
           /\ IF rows = <<>>
              THEN EndSection(entries, fresh.entries, sc)
              ELSE /\ pc' = "rows" /\ header_map' = hm
                   /\ local_date' = c.local_date /\ local_session' = c.local_session
                   /\ fresh' = [fresh EXCEPT !.self_current_date = sc.self_current_date,
                                             !.local_date = sc.local_date,
                                             !.local_session = sc.local_session]
                   /\ UNCHANGED <<table, entries, schedule_entries>>))))))
    /\ UNCHANGED <<scraper, run_mode, meet_name, raw_entries, result, runs, self_current_session,
                   run_vars, current_session, current_date, last_start_time, rows_left,
                   row, entry, rows_used, tables_used, est_session>>
\* one data row of the current section; an exception of the row is caught and the
\* row skipped; the context moves only when the row gives an entry
PrelimParseRow ==
    /\ pc = "rows" /\ scraper = "prelim" /\ data_rows # <<>>
    /\ Bind(Head(data_rows), LAMBDA r :
       Bind(PrelimLocals(local_date, self_current_date, local_session, self_current_session),
            LAMBDA c :
       Bind(PrelimRowStep(c, r, header_map, meet_name), LAMBDA g :
       Bind(PrelimLocals(fresh.local_date, fresh.self_current_date, fresh.local_session,
                         fresh.self_current_session), LAMBDA sc :
       Bind(IF sc = c THEN g ELSE PrelimRowStep(sc, r, header_map, meet_name), LAMBDA sg :
       Bind(IF g.entry = NoEntry THEN entries ELSE Append(entries, g.entry), LAMBDA got :
       Bind(IF sg.entry = NoEntry THEN fresh.entries ELSE Append(fresh.entries, sg.entry),
            LAMBDA sgot :
       Bind(PrelimRowDate(r, header_map), LAMBDA new_date :
       Bind(PrelimRowSession(r, header_map), LAMBDA new_session :
           /\ row' = r /\ entry' = g.entry
           /\ trail' = Append(trail,
                   TrailItem(r, g.entry, OrInt(c.local_session, c.self_current_session), None,
                             OrInt(g.local_session, g.self_current_session), None))
           /\ data_rows' = Tail(data_rows)
           /\ self_current_date' = g.self_current_date
           /\ self_current_session' = g.self_current_session
           /\ est_date' = IF Truthy(new_date) THEN new_date ELSE est_date
           /\ est_session' = IF new_session # NoneInt THEN new_session ELSE est_session
           /\ UNCHANGED header_sections
           /\ IF Tail(data_rows) = <<>>
              THEN EndSection(got, sgot, sg)
              ELSE /\ local_date' = g.local_date /\ local_session' = g.local_session
                   /\ entries' = got
                   /\ fresh' = [fresh EXCEPT !.self_current_date = sg.self_current_date,
                                             !.self_current_session = sg.self_current_session,
                                             !.local_date = sg.local_date,
                                             !.local_session = sg.local_session,
                                             !.entries = sgot]
                   /\ UNCHANGED <<pc, table, header_map, schedule_entries>>)))))))))
    /\ UNCHANGED <<scraper, run_mode, meet_name, raw_entries, result, runs, run_vars,
                   current_session, current_date, last_start_time, rows_left,
                   rows_used, tables_used>>

\* ------------------------------------------------------------------ specifications
\* runs of main(), one after another against the store: scrape_and_upsert and the CSV
\* export, each on an instance of its own
Next ==
    \/ \E meet \in Meets, dry \in BOOLEAN : main_upsert(meet, dry)
    \/ \E meet \in Meets : main_csv(meet)
    \/ \E download_ok \in BOOLEAN : download_pdf(download_ok)
    \/ \E n \in 1..MaxRunRows : FinalBeginTable(n, MaxRunRows)
    \/ \E r \in RunRowsFinal : FinalParseRow(r)
    \/ \E t \in RunTablesPrelim : PrelimBeginTable(t, MaxRunTables)
    \/ PrelimBeginSection
    \/ PrelimParseRow
    \/ ReturnExtract
    \/ \E store_ok \in BOOLEAN : Finish(store_ok)
Spec == Init /\ [][Next]_vars
\* documents parsed one after another by one instance
NextParse ==
    \/ \E meet \in {A} : extract_schedule_data(meet)
    \/ \E n \in 1..MaxTableRows : FinalBeginTable(n, MaxRows)
    \/ \E r \in ParseRowsFinal : FinalParseRow(r)
    \/ \E t \in ParseTablesPrelim : PrelimBeginTable(t, MaxTables)
    \/ PrelimBeginSection
    \/ PrelimParseRow
    \/ ReturnExtract
SpecParse == Init /\ [][NextParse]_vars
\* documents whose rows are complete and carry the weight categories
NextWeight ==
    \/ \E meet \in {A} : extract_schedule_data(meet)
    \/ \E n \in 1..MaxWeightRows : FinalBeginTable(n, MaxWeightRows)
    \/ \E r \in WeightRowsFinal : FinalParseRow(r)
    \/ \E t \in OneSection({<<>>}, WeightRowsPrelim, MaxWeightRows) : PrelimBeginTable(t, MaxRunTables)
    \/ PrelimBeginSection
    \/ PrelimParseRow
    \/ ReturnExtract
SpecWeight == Init /\ [][NextWeight]_vars
\* final-schedule documents whose rows are of the three platforms
NextPlatform ==
    \/ \E meet \in {A} : extract_schedule_data(meet)
    \/ \E n \in 1..MaxTableRows : FinalBeginTable(n, MaxRows)
    \/ \E r \in PlatformRowsFinal : FinalParseRow(r)
    \/ ReturnExtract
SpecPlatform == Init /\ [][NextPlatform]_vars

\* ------------------------------------------------------------------ properties
\* the keys of the entries of a list, and the last entry of a list with key k
KeysIn(list) == {KeyOf(scraper, list[i]) : i \in DOMAIN list}
LastWith(list, k) ==
    list[CHOOSE i \in DOMAIN list :
            /\ KeyOf(scraper, list[i]) = k
            /\ \A j \in DOMAIN list : KeyOf(scraper, list[j]) = k => j <= i]
\* the rows persisted for an event; two records differ on a tracked field
PersistedFor(meet) == {r \in store : r.meet = meet}
TrackedFieldsDiffer(old, new) ==
    old.date # new.date \/ old.start_time # new.start_time \/ old.weigh_in_time # new.weigh_in_time
\* a dry run has returned its result; a non-dry run has called the store's upsert
DryRunDone == pc = "idle" /\ result.success /\ result.dry_run
UpsertCalled == pc = "idle" /\ store_calls = <<"upsert">>
UpdateKeys == {KeyOf(scraper, stats.to_update[i].new) : i \in DOMAIN stats.to_update}

\* C1: after a dry run every key of the new entries is in to_add iff no row of the
\* event has the key, in to_update iff a row of the event has it and differs from the new
\* entry on date, start_time or weigh_in_time (to_update carrying that row and the new
\* entry), in unchanged iff a row has it and differs on none; in both key modes.
C1_Classification ==
    DryRunDone =>
        \A k \in KeysIn(formatted_entries) :
            LET new == LastWith(formatted_entries, k)
                old == {r \in PersistedFor(meet_name) : KeyOf(scraper, r) = k}
            IN  /\ k \in KeysIn(stats.to_add) <=> old = {}
                /\ k \in UpdateKeys <=> \E r \in old : TrackedFieldsDiffer(r, new)
                /\ k \in KeysIn(stats.unchanged)
                      <=> old # {} /\ \A r \in old : ~TrackedFieldsDiffer(r, new)
                /\ \A i \in DOMAIN stats.to_update :
                      KeyOf(scraper, stats.to_update[i].new) = k
                          => stats.to_update[i].new = new /\ stats.to_update[i].existing \in old
\* a dry run that found a record to add and a record to update
C1_AddAndUpdate == DryRunDone /\ stats.to_add # <<>> /\ stats.to_update # <<>>
\* a dry run that found a record differing from the stored one on no tracked field
C1_Unchanged == DryRunDone /\ stats.unchanged # <<>>
\* a record to update that differs from the stored one on the start time alone
C1_StartTimeAlone ==
    /\ DryRunDone
    /\ \E i \in DOMAIN stats.to_update :
          /\ stats.to_update[i].existing.date = stats.to_update[i].new.date
          /\ stats.to_update[i].existing.weigh_in_time = stats.to_update[i].new.weigh_in_time
\* a date-keyed dry run whose record to update differs on the weigh-in time alone
C1_WeighInAloneDateKeyed ==
    /\ DryRunDone /\ scraper = "prelim"
    /\ \E i \in DOMAIN stats.to_update :
          stats.to_update[i].existing.start_time = stats.to_update[i].new.start_time
\* an event-keyed dry run with a record to update that differs from the stored one on
\* the date alone and one that differs on the weigh-in time alone
C1_Witness ==
    /\ DryRunDone /\ scraper = "final"
    /\ \E i, j \in DOMAIN stats.to_update :
          /\ stats.to_update[i].existing.date # stats.to_update[i].new.date
          /\ stats.to_update[i].existing.start_time = stats.to_update[i].new.start_time
          /\ stats.to_update[i].existing.weigh_in_time = stats.to_update[i].new.weigh_in_time
          /\ stats.to_update[j].existing.date = stats.to_update[j].new.date
          /\ stats.to_update[j].existing.start_time = stats.to_update[j].new.start_time
          /\ stats.to_update[j].existing.weigh_in_time # stats.to_update[j].new.weigh_in_time

\* C2: the batch handed to the store's upsert never holds two records with the same
\* uniqueness key, in the final and in the prelim scraper.
C2_BatchKeysUnique ==
    \A i, j \in DOMAIN batch : i # j => KeyOf(scraper, batch[i]) # KeyOf(scraper, batch[j])

\* C3: the dry run predicts the upsert on the same store: a record is in to_add exactly
\* when no stored row (of any event) has its conflict key, and in to_update or unchanged
\* exactly when a stored row has it.
C3_DryRunPredictsUpsert ==
    DryRunDone =>
        \A k \in KeysIn(formatted_entries) :
            LET hit == \E r \in store : KeyOf(scraper, r) = k
            IN  /\ k \in KeysIn(stats.to_add) <=> ~hit
                /\ k \in UpdateKeys \cup KeysIn(stats.unchanged) <=> hit

\* C4: to_add, to_update and unchanged partition the entries given to dry_run: each
\* entry is in exactly one of them and their sizes add up to total_new.
C4_Partition ==
    DryRunDone =>
        /\ Len(stats.to_add) + Len(stats.to_update) + Len(stats.unchanged) = stats.total_new
        /\ \A i \in DOMAIN formatted_entries :
              LET e == formatted_entries[i]
                  n(list) == Cardinality({j \in DOMAIN list : list[j] = e})
              IN  n(stats.to_add) + n(stats.unchanged)
                  + Cardinality({j \in DOMAIN stats.to_update : stats.to_update[j].new = e}) = 1

\* C5: the deduplicated batch of the final scraper holds exactly one record per key of
\* its input, the last record of the input with that key, and the removed count is the
\* input length minus the output length.
C5_LastSeenWins ==
    scraper = "final" /\ UpsertCalled =>
        /\ KeysIn(batch) = KeysIn(formatted_entries)
        /\ \A k \in KeysIn(formatted_entries) :
              /\ Cardinality({i \in DOMAIN batch : KeyOf(scraper, batch[i]) = k}) = 1
              /\ \A i \in DOMAIN batch :
                    KeyOf(scraper, batch[i]) = k => batch[i] = LastWith(formatted_entries, k)
        /\ removed = Len(formatted_entries) - Len(batch)
\* two records with one key that differ in start_time only: the later one is kept
C5_Witness ==
    /\ scraper = "final" /\ UpsertCalled /\ Len(formatted_entries) = 2 /\ removed = 1
    /\ formatted_entries[1].start_time # formatted_entries[2].start_time
    /\ [formatted_entries[1] EXCEPT !.start_time = formatted_entries[2].start_time]
          = formatted_entries[2]
    /\ batch = <<formatted_entries[2]>>

\* C6: no step of a run in dry-run mode changes the rows of the store, and such a run
\* sends the store nothing but the read query.
C6_DryRunReadsOnly ==
    [][run_mode' = "dry_run" => store' = store /\ store_calls' \in {<<>>, <<"select">>}]_vars
\* a dry run that reported records to add, none of which is in the store
C6_Witness ==
    /\ DryRunDone /\ stats.to_add # <<>> /\ store_calls = <<"select">>
    /\ \A i \in DOMAIN stats.to_add : stats.to_add[i] \notin store

\* C7: the engine never deletes: every key dry_run reports is a key of the new entries,
\* and every step keeps each stored row whose key is not in the batch of the step.
C7_Reported ==
    DryRunDone =>
        KeysIn(stats.to_add) \cup UpdateKeys \cup KeysIn(stats.unchanged)
            \subseteq KeysIn(formatted_entries)
C7_Kept ==
    \A r \in store : (\A i \in DOMAIN batch' : KeyOf(scraper, batch'[i]) # KeyOf(scraper, r))
                        => r \in store'
C7_NeverDeletes == []C7_Reported /\ [][C7_Kept]_vars
\* an upsert has succeeded and a row of the event whose key the batch lacks is still stored
C7_Witness ==
    /\ UpsertCalled /\ result.success
    /\ \E r \in PersistedFor(meet_name) : KeyOf(scraper, r) \notin KeysIn(batch)

\* C8: every record handed to the store's upsert, to dry_run or to the CSV export, and
\* every stored row, has all seven fields present and non-empty; an entry lacking one
\* (an empty weight category, an empty event name) goes no further than the normalizer.
Complete(e) ==
    /\ e.date \notin {None, <<>>} /\ e.session_id # NoneInt
    /\ e.start_time \notin {None, <<>>} /\ e.weigh_in_time \notin {None, <<>>}
    /\ e.platform \notin {None, <<>>} /\ e.weight_class \notin {None, <<>>}
    /\ e.meet \notin {None, <<>>}
C8_OnlyCompleteRecords ==
    /\ \A e \in Range(formatted_entries) \cup Range(batch) \cup Range(exported) \cup store :
          Complete(e)
    /\ \A e \in Range(stats.to_add) \cup Range(stats.unchanged) : Complete(e)
    /\ \A i \in DOMAIN stats.to_update : Complete(stats.to_update[i].new)
\* a run that succeeded although the document gave an entry without a weight category
C8_Witness ==
    /\ pc = "idle" /\ result.success /\ formatted_entries # <<>>
    /\ \E i \in DOMAIN raw_entries : raw_entries[i].weight_class = <<>>

\* C9: the entries extract_schedule_data returns for a document are those a new
\* instance returns for it, whatever the instance has parsed before.
C9_FreshContextPerDocument ==
    pc = "idle" /\ result.success /\ run_mode = "extract"
        => raw_entries = fresh.schedule_entries

\* C10: a row with a platform and two times that omits the date or the session is not
\* rejected once an earlier row of the document (of any table) has established them: it
\* gives an entry with the date and session established last.
WellFormed(r) ==
    IF scraper = "final"
    THEN /\ ~RowMissing(r) /\ Len(r) >= 7 /\ Cell(r, 2) \in {RED, WHITE, BLUE}
         /\ _parse_time(Cell(r, 3)).tag = "time" /\ _parse_time(Cell(r, 4)).tag = "time"
    ELSE /\ ~RowMissing(r) /\ Cell(r, MapGet(header_map, "platform_idx", 2)) \in {Red, White, Blue}
         /\ _parse_time(Cell(r, MapGet(header_map, "weigh_idx", 3))).tag = "time"
         /\ _parse_time(Cell(r, MapGet(header_map, "time_idx", 4))).tag = "time"
RowSession(r) ==
    IF scraper = "final" THEN FinalRowSession(r) ELSE PrelimRowSession(r, header_map)
C10_Step ==
    LET session == IF RowSession(row') # NoneInt THEN RowSession(row') ELSE est_session
    IN  pc = "rows" /\ WellFormed(row') /\ Truthy(est_date') /\ TruthyInt(session)
            => entry' # NoEntry /\ entry'.date = est_date' /\ entry'.session_id = session
C10_InheritsAcrossTables == [][C10_Step]_vars

\* a RED row of the final schedule without a session number that gave an entry
AcceptedRedNoSession(it) ==
    it.entry # NoEntry /\ Cell(it.row, 2) = RED /\ Cell(it.row, 1) = <<>>
\* C11: three RED rows in a row that give entries and name no session, the first two at
\* one start time (the one recorded last, if any), the third at another, read while the
\* running session is N, give entries of session N, N and N + 1.
C11_BoundaryInference ==
    scraper = "final" =>
        \A i \in DOMAIN trail : i + 2 <= Len(trail) =>
            LET a == trail[i]
                b == trail[i + 1]
                c == trail[i + 2]
            IN  /\ AcceptedRedNoSession(a) /\ AcceptedRedNoSession(b) /\ AcceptedRedNoSession(c)
                /\ TruthyInt(a.session_before)
                /\ a.tracker_before \in {None, Cell(a.row, 4)}
                /\ Cell(b.row, 4) = Cell(a.row, 4) /\ Cell(c.row, 4) # Cell(a.row, 4)
                => /\ a.entry.session_id = a.session_before
                   /\ b.entry.session_id = a.session_before
                   /\ c.entry.session_id = a.session_before + 1

\* the weigh-in and start time cells of a row, where the scraper in use reads them
RowTimes(r) ==
    IF RowMissing(r) THEN {}
    ELSE IF scraper = "final"
    THEN IF Len(r) < 7 THEN {} ELSE {Cell(r, 3), Cell(r, 4)}
    ELSE {Cell(r, MapGet(header_map, "weigh_idx", 3)), Cell(r, MapGet(header_map, "time_idx", 4))}
\* C12: no row ends the parse of its table or document: for every row, whatever its
\* cells hold, _parse_time returns a time or None and never raises, the call goes on with
\* the next row, and the entries of the rows before it are kept.
C12_Step ==
    pc = "rows" =>
        /\ \A c \in RowTimes(row') : _parse_time(c).tag # "raise"
        /\ pc' \in {"rows", "sections", "doc"} /\ result' = result
        /\ pc' = "rows" => SubSeq(entries', 1, Len(entries)) = entries
C12_RowNeverAborts == [][C12_Step]_vars

\* C13: a call downloads the document at most once and sends the store at most one
\* statement, so at most one upsert; a call whose download failed sends the store
\* nothing and parses nothing; and the rows of the store change only in a step that
\* ends a successful call with the one upsert of its whole batch: a failed call
\* leaves every row as it was.
C13_Calls ==
    /\ fetches <= 1 /\ Len(store_calls) <= 1
    /\ result.error = "download" => pc = "idle" /\ store_calls = <<>> /\ raw_entries = <<>>
    /\ pc = "idle" /\ ~result.success /\ run_mode \in {"upsert", "dry_run"} => result.error # ""
C13_Step ==
    /\ store' # store =>
          /\ result'.success /\ store_calls' = <<"upsert">>
          /\ store' = Upsert(store, scraper, batch')
    /\ pc' = "idle" /\ ~result'.success => store' = store
C13_NoRetryOneBulkUpsert == []C13_Calls /\ [][C13_Step]_vars
\* a call whose upsert failed: one download, one statement, a batch, and no row stored
C13_Witness ==
    /\ pc = "idle" /\ result.error = "store" /\ fetches = 1 /\ store_calls = <<"upsert">>
    /\ batch # <<>> /\ store = {}

\* scrape_and_upsert has returned after extraction ran to its end
ExtractedAndReturned ==
    /\ pc = "idle" /\ run_mode \in {"upsert", "dry_run"}
    /\ result.error \notin {"none", "download", "ValueError"}
\* C14: when extraction gives no entry, scrape_and_upsert returns the failure 'No data
\* extracted'; when it gives entries none of which has all seven fields, the failure 'No
\* valid entries after formatting'; in both cases the store is sent no statement and no
\* step of the call changes its rows.
C14_Empty ==
    ExtractedAndReturned =>
        /\ raw_entries = <<>> =>
              result = Failure("No data extracted") /\ store_calls = <<>>
        /\ raw_entries # <<>> /\ (\A i \in DOMAIN raw_entries : ~Complete(raw_entries[i])) =>
              result = Failure("No valid entries after formatting") /\ store_calls = <<>>
C14_Step ==
    result'.error \in {"No data extracted", "No valid entries after formatting"} => store' = store
C14_EmptyResultSkipsStore == []C14_Empty /\ [][C14_Step]_vars
\* entries were extracted, none was valid, and the rows stored before are untouched
C14_Witness ==
    /\ ExtractedAndReturned /\ raw_entries # <<>>
    /\ result.error = "No valid entries after formatting"
    /\ store_calls = <<>> /\ store # {}

\* a row the positional parser reads (7 cells or more), and the entries of the rows of
\* the trail in the order the rows gave them
Positional(it) == ~RowMissing(it.row) /\ Len(it.row) >= 7
EmittedBy(tr) == SelectSeq([i \in DOMAIN tr |-> tr[i].entry], LAMBDA e : e # NoEntry)
\* a boundary row: RED, no session number, a start time other than the one recorded
\* last, read while a session is running
BoundaryRow(it) ==
    /\ Positional(it) /\ Cell(it.row, 2) = RED /\ Cell(it.row, 1) = <<>>
    /\ Cell(it.row, 4) # <<>> /\ it.tracker_before \notin {None, <<>>, Cell(it.row, 4)}
    /\ it.session_before >= 1
\* C15: in the final scraper a boundary row that gives an entry gives it the session that
\* was running before the row, and the running session is one more after it; a boundary
\* row that gives no entry, and every other row without a session number, leaves the
\* running session as it was; the entries given earlier in the table stay as they were.
C15_IncrementAfterEmit ==
    scraper = "final" =>
        /\ \A i \in DOMAIN trail :
              LET it == trail[i]
              IN  IF BoundaryRow(it) /\ it.entry # NoEntry
                  THEN /\ it.entry.session_id = it.session_before
                       /\ it.session_after = it.session_before + 1
                  ELSE Positional(it) /\ ~IsDigitStr(Cell(it.row, 1))
                          => it.session_after = it.session_before
        /\ pc = "rows" => entries = EmittedBy(trail)
\* a table in which one boundary row was rejected and a later one gave an entry
C15_Witness ==
    /\ scraper = "final"
    /\ \E i, j \in DOMAIN trail :
          /\ i < j /\ BoundaryRow(trail[i]) /\ trail[i].entry = NoEntry
          /\ BoundaryRow(trail[j]) /\ trail[j].entry # NoEntry
          /\ trail[j].session_after = trail[i].session_before + 1

\* a row of the final schedule whose session cell is a number (digits that int() reads)
NamesSession(it) ==
    Positional(it) /\ IsDigitStr(Cell(it.row, 1)) /\ ~IntRaises(Cell(it.row, 1))
\* C16: in the final scraper a row whose session cell is a number sets the running
\* session to that number, with no increment, and resets the last recorded start time:
\* after the row it is the row's own start time if the row is a RED row that gave an
\* entry, and empty otherwise.
C16_ExplicitSessionResets ==
    scraper = "final" =>
        \A i \in DOMAIN trail :
            LET it == trail[i]
            IN  NamesSession(it) =>
                    /\ it.session_after = IntOf(Cell(it.row, 1))
                    /\ it.tracker_after =
                          IF it.entry # NoEntry /\ Cell(it.row, 2) = RED
                          THEN Cell(it.row, 4) ELSE None
\* a row with a session number that gave no entry, read after a RED start time was
\* recorded: the tracker is empty after it
C16_Witness ==
    /\ scraper = "final"
    /\ \E i \in DOMAIN trail :
          /\ NamesSession(trail[i]) /\ Truthy(trail[i].tracker_before)
          /\ trail[i].entry = NoEntry /\ trail[i].tracker_after = None

\* the six core fields of an entry are present and non-empty
CoreFields(e) ==
    /\ e.date \notin {None, <<>>} /\ e.session_id # NoneInt
    /\ e.platform \notin {None, <<>>} /\ e.start_time \notin {None, <<>>}
    /\ e.weigh_in_time \notin {None, <<>>} /\ e.weight_class \notin {None, <<>>}
\* C17: every entry a row gives, in either scraper, has its six core fields date,
\* session_id, platform, start_time, weigh_in_time and weight category non-empty, also
\* when the weight category cell of the row is blank.
C17_NoPartialRecord ==
    /\ entry # NoEntry => CoreFields(entry)
    /\ \A e \in Range(entries) \cup Range(schedule_entries) \cup Range(raw_entries) : CoreFields(e)

\* the date a row names, in the scraper in use
RowDate(r) == IF scraper = "final" THEN FinalRowDate(r) ELSE PrelimRowDate(r, header_map)
\* C18: a row that names a date and a session hands both on to the row after it, whether
\* or not it gave an entry itself: a next row with a platform and two times that names
\* neither gives an entry with that date and that session, in a table of the final
\* schedule and in a section under a header row of the prelim schedule.
C18_RejectedRowUpdatesContext ==
    \A i \in DOMAIN trail : i + 1 <= Len(trail) =>
        LET a == trail[i]
            b == trail[i + 1]
        IN  /\ scraper = "prelim" => IsHeaderRow(trail[1].row)
            /\ Truthy(RowDate(a.row)) /\ RowSession(a.row) >= 1
            /\ WellFormed(b.row) /\ ~Truthy(RowDate(b.row)) /\ RowSession(b.row) = NoneInt
            => /\ b.entry # NoEntry
               /\ b.entry.date = RowDate(a.row)
               /\ b.entry.session_id = RowSession(a.row)

\* C19: a table of the prelim schedule without a header row is parsed by position: each
\* of its rows that names a date and a session and has a platform and two times at the
\* fixed positions gives an entry, and the entries join those of the document.
C19_HeaderlessFallsBack ==
    scraper = "prelim" /\ pc = "doc" /\ trail # <<>>
    /\ (\A i \in DOMAIN trail : ~IsHeaderRow(trail[i].row)) =>
        \A i \in DOMAIN trail :
            /\ WellFormed(trail[i].row)
            /\ Truthy(RowDate(trail[i].row)) /\ RowSession(trail[i].row) >= 1
            => trail[i].entry # NoEntry /\ trail[i].entry \in Range(schedule_entries)

\* the text of the session cell of a row
SessionCell(r) == IF RowMissing(r) THEN <<>> ELSE Cell(r, 1)
\* C20: every entry either scraper emits has a session_id of 1 or more: the entry of the
\* row parsed last, the entries of the table and of the document, and what
\* extract_schedule_data returns; a session cell that is 0 or no number never gives an
\* entry with session 0 or without a session.
C20_SessionPositive ==
    /\ entry # NoEntry => entry.session_id >= 1
    /\ \A e \in Range(entries) \cup Range(schedule_entries) \cup Range(raw_entries) :
          e.session_id >= 1
    /\ \A i \in DOMAIN trail : trail[i].entry # NoEntry => trail[i].entry.session_id >= 1
\* a table in which a row with session cell 0 gave no entry and a row whose session
\* cell is no number gave an entry of the running session
C20_Witness ==
    \E i, j \in DOMAIN trail :
        /\ SessionCell(trail[i].row) = <<"0">> /\ trail[i].entry = NoEntry
        /\ SessionCell(trail[j].row) = <<"x">> /\ trail[j].entry # NoEntry
        /\ trail[j].entry.session_id = trail[j].session_before

\* the weight-category cell of a row: column 6 of a final row (line 90), the
\* 'Weight Category' column of a prelim row under the header row PH
GroupLetters == {"A", "B", "C", "D", "E"}
EndsInGroupLetter(w) == Len(w) > 0 /\ w[Len(w)] \in GroupLetters
WeightCell(r) == IF scraper = "final" THEN Cell(r, 6) ELSE Cell(r, 5)
\* C21: the weight_category of every emitted record never ends in a group letter
\* A-E, and a cell that does not end in such a letter ('81', '81 F') is emitted as
\* it is.
C21_GroupSuffixStripped ==
    \A i \in DOMAIN trail :
        trail[i].entry # NoEntry =>
            /\ ~EndsInGroupLetter(trail[i].entry.weight_class)
            /\ ~EndsInGroupLetter(WeightCell(trail[i].row)) =>
                   trail[i].entry.weight_class = WeightCell(trail[i].row)


\* a WHITE or BLUE row of the final schedule; what every row does to the running session
OtherPlatform(it) == Positional(it) /\ Cell(it.row, 2) \in {WHITE, BLUE}
SessionFrame(it) ==
    /\ it.session_after # it.session_before =>
          \/ NamesSession(it) /\ it.session_after = IntOf(Cell(it.row, 1))
          \/ /\ BoundaryRow(it) /\ it.entry # NoEntry
             /\ it.session_after = it.session_before + 1
    /\ ~Positional(it) => it.session_after = it.session_before
    /\ OtherPlatform(it) /\ Cell(it.row, 1) = <<>> => it.session_after = it.session_before
    /\ Positional(it) /\ it.entry = NoEntry /\ Cell(it.row, 1) = <<>>
          => it.session_after = it.session_before
\* C22: in the final scraper the running session changes only when a row's session cell
\* is a number (it becomes that number) or right after a RED boundary row gave an entry
\* (it grows by one); a WHITE or BLUE row without a session number, a row of fewer than
\* 7 cells and a rejected row without a session number leave it as it was; and a WHITE
\* or BLUE row leaves the last recorded start time as it was.
C22_SessionAndTrackerFrame ==
    scraper = "final" =>
        \A i \in DOMAIN trail :
            /\ SessionFrame(trail[i])
            /\ OtherPlatform(trail[i]) => trail[i].tracker_after = trail[i].tracker_before
\* C22 as amended: the same, with the last recorded start time left as it was by a WHITE
\* or BLUE row that has no session number.
C22_FrameWithoutSessionNumber ==
    scraper = "final" =>
        \A i \in DOMAIN trail :
            /\ SessionFrame(trail[i])
            /\ OtherPlatform(trail[i]) /\ Cell(trail[i].row, 1) = <<>>
                  => trail[i].tracker_after = trail[i].tracker_before
\* a WHITE row without a session number gave an entry at a start time other than the RED
\* one recorded last, and left session and tracker as they were; a short row and a
\* rejected row are in the same table
C22_Witness ==
    /\ scraper = "final"
    /\ \E i, j, k \in DOMAIN trail :
          /\ OtherPlatform(trail[i]) /\ Cell(trail[i].row, 1) = <<>>
          /\ trail[i].entry # NoEntry /\ Truthy(trail[i].tracker_before)
          /\ Cell(trail[i].row, 4) # trail[i].tracker_before
          /\ trail[i].session_after = trail[i].session_before
          /\ trail[i].tracker_after = trail[i].tracker_before
          /\ ~Positional(trail[j])
          /\ Positional(trail[k]) /\ trail[k].entry = NoEntry
====
